---- MODULE Spec2Model ----
(***************************************************************************)
(* Model of the resilient-retrieval core of main_ga.py: GA4DataManager     *)
(* (authenticate, get_data_with_retry, _validate_query_inputs).            *)
(*                                                                         *)
(* Strings whose characters the code inspects (the date tokens, matched    *)
(* with regular expressions) are sequences of one-character strings.       *)
(* Strings the code only compares or stores (dimension and metric names,   *)
(* exception messages) are TLA+ strings.  A formatted message is a record  *)
(* holding the message kind and the values interpolated into it.           *)
(***************************************************************************)
EXTENDS Integers, Sequences, FiniteSets, TLC

VARIABLES
    file,               \* the service-account file on disk (environment)
    property_id,        \* self.property_id
    client,             \* self.client is not None
    rate_limit_delay,   \* self._rate_limit_delay
    pc,                 \* position of the caller / of the running call
    args,               \* arguments of the running call
    attempt,            \* loop variable of get_data_with_retry
    result,             \* value returned by the last finished call
    sleeps,             \* time.sleep arguments of the running call, in order
    requests,           \* run_report calls of the running call, in order
    warnings,           \* logger.warning / logger.error records of the call
    auth_result,        \* auth_result of the running call, <<>> when not set
    clientAtCall,       \* self.client was set when the running call began
    report,             \* the frame of generate_comprehensive_report
    trace,              \* what the running call has done so far, in order
    mcp                 \* the GoogleAnalyticsMCPServer session

vars == <<file, property_id, client, rate_limit_delay, pc, args, attempt,
          result, sleeps, requests, warnings, auth_result, clientAtCall,
          report, trace, mcp>>

-----------------------------------------------------------------------------
(* Bounds of the model *)

MaxDimLen == 10         \* longest dimension list supplied
MaxMetricLen == 11      \* longest metric list supplied
MaxRows == 1            \* most rows in a provider response
MaxPhrases == 2         \* most phrases of the pool joined into a request
MaxValueLen == 4        \* longest raw value drawn from an alphabet
MaxRecords == 14        \* most rows of a table handed to the insights

(* Program constants *)

max_retries == 3
MaxDimensions == 9
MaxMetricCount == 10
LimitCeiling == 100000
InitialRateLimitDelay == 1
DefaultLimit == 10000

-----------------------------------------------------------------------------
(* Small helpers *)

Min(a, b) == IF a < b THEN a ELSE b

RECURSIVE Pow2(_)
Pow2(n) == IF n = 0 THEN 1 ELSE 2 * Pow2(n - 1)

Rep(x, n) == [i \in 1..n |-> x]

-----------------------------------------------------------------------------
(* Date tokens as character sequences *)

Tok_today      == <<"t","o","d","a","y">>
Tok_yesterday  == <<"y","e","s","t","e","r","d","a","y">>
Tok_daysAgo    == <<"d","a","y","s","A","g","o">>
Tok_7daysAgo   == <<"7">> \o Tok_daysAgo
Tok_30daysAgo  == <<"3","0">> \o Tok_daysAgo
Tok_abs        == <<"2","0","2","4","-","0","1","-","0","1">>
Tok_slashes    == <<"0","1","/","0","1","/","2","0","2","4">>
Tok_last_week  == <<"l","a","s","t"," ","w","e","e","k">>
Tok_short_abs  == <<"2","0","2","4","-","1","-","0","1">>
Tok_Today      == <<"T","o","d","a","y">>
Tok_empty      == <<>>
Tok_neg        == <<"-","7">> \o Tok_daysAgo
Tok_arabic     == <<"U+0663">> \o Tok_daysAgo
Newline        == <<"\n">>

AsciiDigits == {"0","1","2","3","4","5","6","7","8","9"}

\* ARABIC-INDIC DIGIT THREE, one character, written by its code point
UnicodeDigits == {"U+0663"}

\* \d : a str pattern without re.ASCII matches every Unicode decimal digit
IsDigit(c) == c \in AsciiDigits \cup UnicodeDigits

\* $ without re.MULTILINE: at the end of the string, or just before a
\* newline that is the last character of the string.  i is the index of the
\* first character not yet consumed.
AtDollar(s, i) == \/ i = Len(s) + 1
                  \/ i = Len(s) /\ s[i] = "\n"

\* r'^\d{4}-\d{2}-\d{2}$'
MatchAbsoluteDate(s) ==
    /\ Len(s) >= 10
    /\ \A i \in {1,2,3,4,6,7,9,10} : IsDigit(s[i])
    /\ s[5] = "-" /\ s[8] = "-"
    /\ AtDollar(s, 11)

\* r'^\d+daysAgo$'
MatchDaysAgo(s) ==
    \E k \in 1..Len(s) :
        /\ \A i \in 1..k : IsDigit(s[i])
        /\ Len(s) >= k + 7
        /\ SubSeq(s, k + 1, k + 7) = Tok_daysAgo
        /\ AtDollar(s, k + 8)

\* r'^(today|yesterday)$'
MatchLiteral(s) ==
    \E lit \in {Tok_today, Tok_yesterday} :
        /\ Len(s) >= Len(lit)
        /\ SubSeq(s, 1, Len(lit)) = lit
        /\ AtDollar(s, Len(lit) + 1)

\* any(re.match(pattern, date_val) for pattern in date_patterns)
date_patterns_match(date_val) ==
    \/ MatchAbsoluteDate(date_val)
    \/ MatchDaysAgo(date_val)
    \/ MatchLiteral(date_val)

-----------------------------------------------------------------------------
(* _validate_query_inputs *)

valid_metrics ==
    {"sessions", "totalUsers", "newUsers", "activeUsers",
     "screenPageViews", "eventCount", "bounceRate", "engagementRate",
     "averageSessionDuration", "sessionsPerUser", "conversions",
     "totalRevenue", "transactions", "purchaseRevenue"}

IsInvalidMetric(m) == m \notin valid_metrics

\* only the first invalid name is reported
invalid_metrics_FirstOnly(metrics) ==
    IF SelectSeq(metrics, IsInvalidMetric) = <<>> THEN <<>>
    ELSE <<SelectSeq(metrics, IsInvalidMetric)[1]>>

\* [m for m in metrics if m not in valid_metrics]
invalid_metrics(metrics) == SelectSeq(metrics, IsInvalidMetric)

\* end_date is examined before start_date
first_bad_date_EndFirst(start_date, end_date) ==
    IF ~date_patterns_match(end_date) THEN <<end_date>>
    ELSE IF ~date_patterns_match(start_date) THEN <<start_date>>
    ELSE <<>>

\* for date_val in [start_date, end_date]: the first one no pattern matches,
\* as a sequence of at most one element
first_bad_date(start_date, end_date) ==
    IF ~date_patterns_match(start_date) THEN <<start_date>>
    ELSE IF ~date_patterns_match(end_date) THEN <<end_date>>
    ELSE <<>>

\* the comparison is off by one
TooManyDimensions_OffByOne(dimensions) == Len(dimensions) > MaxDimensions + 1

\* if len(dimensions) > 9
TooManyDimensions(dimensions) == Len(dimensions) > MaxDimensions

\* if len(metrics) > 10
TooManyMetrics(metrics) == Len(metrics) > MaxMetricCount

_validate_query_inputs(dimensions, metrics, start_date, end_date) ==
    IF TooManyDimensions(dimensions) THEN
        [valid |-> FALSE,
         error |-> [kind |-> "Too many dimensions", count |-> Len(dimensions),
                    maximum |-> 9],
         suggestion |-> "Reduce the number of dimensions in your query"]
    ELSE IF TooManyMetrics(metrics) THEN
        [valid |-> FALSE,
         error |-> [kind |-> "Too many metrics", count |-> Len(metrics),
                    maximum |-> 10],
         suggestion |-> "Reduce the number of metrics in your query"]
    ELSE IF invalid_metrics(metrics) # <<>> THEN
        [valid |-> FALSE,
         error |-> [kind |-> "Invalid metrics",
                    names |-> invalid_metrics(metrics)],
         suggestion |-> "Use valid metrics: sorted(valid_metrics)"]
    ELSE IF first_bad_date(start_date, end_date) # <<>> THEN
        [valid |-> FALSE,
         error |-> [kind |-> "Invalid date format",
                    value |-> first_bad_date(start_date, end_date)[1]],
         suggestion |-> "Use formats like '2024-01-01', '30daysAgo', 'today', or 'yesterday'"]
    ELSE [valid |-> TRUE]

-----------------------------------------------------------------------------
(* The service-account file *)

required_fields == <<"type", "project_id", "private_key", "client_email">>

RequiredFieldSet == {required_fields[i] : i \in 1..Len(required_fields)}

\* a key of the JSON document is absent, present with "" or present with text
FieldStates == {"absent", "empty", "set"}

AllSet == [f \in RequiredFieldSet |-> "set"]

\* documents in which at most one required field is not a non-empty string
Documents ==
    {AllSet} \cup
    {[AllSet EXCEPT ![f] = v] : f \in RequiredFieldSet, v \in {"absent", "empty"}}

Files ==
    {[exists |-> FALSE, parses |-> FALSE, info |-> AllSet],
     [exists |-> TRUE, parses |-> FALSE, info |-> AllSet]} \cup
    {[exists |-> TRUE, parses |-> TRUE, info |-> d] : d \in Documents}

\* [field for field in required_fields if field not in service_account_info]
IsMissing(info, field) == info[field] = "absent"

missing_fields(info) ==
    SelectSeq(required_fields, LAMBDA field : IsMissing(info, field))

-----------------------------------------------------------------------------
(* What the libraries and the provider do: inputs of the actions *)

Msgs == {"e1", "e2"}

Exc(m) == [kind |-> "exception", msg |-> m]

\* outcome of building the credentials and of the connection test; whatever
\* is drawn, from_service_account_info raises on an empty private_key, which
\* it cannot load as a key (the other three fields it does not inspect)
LibOutcomes ==
    {[step |-> "credentials", raises |-> TRUE, msg |-> m] : m \in Msgs} \cup
    {[step |-> "run_report", raises |-> TRUE, msg |-> m] : m \in Msgs} \cup
    {[step |-> "run_report", raises |-> FALSE, msg |-> "e1"]}

\* outcome of the data request: an exception, or a response whose rows are
\* (aligned) or are not positionally aligned with the requested fields, and
\* whose metric values are all numerals (numeric) or are all texts that
\* neither int() nor float() accepts, such as "n/a"
ProviderOutcomes ==
    {[raises |-> TRUE, msg |-> m, rows |-> 0, aligned |-> TRUE,
      numeric |-> TRUE] : m \in Msgs} \cup
    {[raises |-> FALSE, msg |-> "e1", rows |-> n, aligned |-> a,
      numeric |-> TRUE] : n \in 0..MaxRows, a \in BOOLEAN} \cup
    {[raises |-> FALSE, msg |-> "e1", rows |-> n, aligned |-> TRUE,
      numeric |-> FALSE] : n \in 1..MaxRows}

TestRequest(prop) ==
    [kind |-> "auth_test", property |-> prop,
     dimensions |-> <<>>, metrics |-> <<"sessions">>,
     start_date |-> Tok_yesterday, end_date |-> Tok_today, limit |-> 1]

-----------------------------------------------------------------------------
(* authenticate: the returned value, self.client afterwards, the requests   *)
(* sent and the records logged                                              *)

authenticate(f, prop, cl, lib) ==
    IF ~f.exists THEN
        [result |-> [success |-> FALSE,
                     error |-> [kind |-> "Service account file not found"],
                     suggestion |-> "Please ensure the service account JSON file exists in the project directory"],
         client |-> cl, sent |-> <<>>, logged |-> <<>>]
    ELSE IF ~f.parses THEN
        [result |-> [success |-> FALSE, error |-> Exc("json"),
                     suggestion |-> "Check your service account permissions and property ID"],
         client |-> cl, sent |-> <<>>,
         logged |-> <<[level |-> "error", error |-> Exc("json")]>>]
    ELSE IF missing_fields(f.info) # <<>> THEN
        [result |-> [success |-> FALSE,
                     error |-> [kind |-> "Missing required fields in service account",
                                fields |-> missing_fields(f.info)],
                     suggestion |-> "Please check your service account JSON file"],
         client |-> cl, sent |-> <<>>, logged |-> <<>>]
    ELSE IF lib.step = "credentials" \/ f.info["private_key"] = "empty" THEN
        [result |-> [success |-> FALSE, error |-> Exc(lib.msg),
                     suggestion |-> "Check your service account permissions and property ID"],
         client |-> cl, sent |-> <<>>,
         logged |-> <<[level |-> "error", error |-> Exc(lib.msg)]>>]
    ELSE IF lib.raises THEN
        [result |-> [success |-> FALSE, error |-> Exc(lib.msg),
                     suggestion |-> "Check your service account permissions and property ID"],
         client |-> TRUE, sent |-> <<TestRequest(prop)>>,
         logged |-> <<[level |-> "error", error |-> Exc(lib.msg)]>>]
    ELSE
        [result |-> [success |-> TRUE,
                     message |-> [kind |-> "Successfully authenticated with GA4 property",
                                  property |-> prop]],
         client |-> TRUE, sent |-> <<TestRequest(prop)>>, logged |-> <<>>]

-----------------------------------------------------------------------------
(* get_data_with_retry: the pieces of one iteration of its loop *)

\* the first attempt sleeps too
ShouldSleep_Always(a) == a >= 0

\* if attempt > 0
ShouldSleep(a) == a > 0

\* the exponent is one too small
BackoffDelay_OffByOne(delay, a) == delay * Pow2(a - 1)

\* self._rate_limit_delay * (2 ** attempt)
BackoffDelay(delay, a) == delay * Pow2(a)

\* every attempt authenticates
NeedsAuthentication_Always(cl) == TRUE

\* if not self.client
NeedsAuthentication(cl) == ~cl

\* a failed authentication does not end the call
AuthShortCircuits_Never(ar) == FALSE

\* if not auth_result["success"]: return auth_result
AuthShortCircuits(ar) == ~ar.success

\* if not validation_result["valid"]: return {...}
ValidationShortCircuits(v) == ~v.valid

\* the limit is passed through
ClampLimit_None(limit) == limit

\* limit=min(limit, 100000)
ClampLimit(limit) == Min(limit, LimitCeiling)

\* the last index is taken to be max_retries
IsFinalAttempt_NoMinusOne(a) == a = max_retries

\* if attempt == max_retries - 1
IsFinalAttempt(a) == a = max_retries - 1

\* for attempt in range(max_retries)
LoopContinues(a) == a + 1 < max_retries

RunReportRequest(prop, a) ==
    [kind |-> "data", property |-> prop,
     dimensions |-> a.dimensions, metrics |-> a.metrics,
     start_date |-> a.start_date, end_date |-> a.end_date,
     limit |-> ClampLimit(a.limit)]

\* row.dimension_values[i] / row.metric_values[i] of a row that has fewer
\* values than the requested fields raises IndexError in _process_response
ProcessRaises(out, dimensions, metrics) ==
    /\ out.rows > 0
    /\ ~out.aligned
    /\ Len(dimensions) + Len(metrics) > 0

\* the exception the try body raises after validation, <<>> when none
RaisedInTry(cl, out, a) ==
    IF ~cl THEN <<Exc("NoneType has no attribute run_report")>>
    ELSE IF out.raises THEN <<Exc(out.msg)>>
    ELSE IF ProcessRaises(out, a.dimensions, a.metrics)
         THEN <<Exc("list index out of range")>>
    ELSE <<>>

\* the range echoes the end date twice
SuccessResult_EndOnly(prop, a, out) ==
    [success |-> TRUE,
     data |-> [rows |-> out.rows, numeric |-> out.numeric],
     row_count |-> out.rows,
     metadata |-> [dimensions |-> a.dimensions, metrics |-> a.metrics,
                   date_range |-> <<a.end_date, "to", a.end_date>>,
                   property_id |-> prop]]

SuccessResult(prop, a, out) ==
    [success |-> TRUE,
     data |-> [rows |-> out.rows, numeric |-> out.numeric],
     row_count |-> out.rows,
     metadata |-> [dimensions |-> a.dimensions, metrics |-> a.metrics,
                   date_range |-> <<a.start_date, "to", a.end_date>>,
                   property_id |-> prop]]

FinalFailure(e) ==
    [success |-> FALSE, error |-> e,
     suggestion |-> "Try reducing the date range or number of dimensions/metrics"]

MaxRetriesExceeded ==
    [success |-> FALSE, error |-> [kind |-> "Max retries exceeded"]]

NoResult == [success |-> FALSE, error |-> [kind |-> "pending"]]

\* no generate_comprehensive_report call is running or has returned
NoReport == [pc |-> "idle"]

\* GoogleAnalyticsMCPServer.__init__: client, property_id and credentials are
\* None; no tool has been called
NoSession ==
    [client |-> "None", property_id |-> "None", credentials |-> "None",
     pc |-> "idle", requests |-> <<>>,
     result |-> [ok |-> TRUE, text |-> "none"]]

\* except Exception as e (every exception the model raises is an Exception)
RetryCatches_Nothing(e) == FALSE

\* except Exception as e
RetryCatches(e) == e.kind = "exception"

-----------------------------------------------------------------------------
(* Inputs *)

PropertyIds == {"123456789"}

DimensionLists ==
    {<<"pagePath", "pageTitle">>, Rep("date", MaxDimLen)}

MetricLists ==
    {<<"sessions", "totalUsers">>, <<"sessions", "bogus">>,
     Rep("sessions", MaxMetricLen)}

StartDates == {Tok_7daysAgo, Tok_last_week}

EndDates == {Tok_today, Tok_slashes}

Limits == {DefaultLimit, LimitCeiling, LimitCeiling + 1}

QuerySpecs ==
    [dimensions : DimensionLists, metrics : MetricLists,
     start_date : StartDates, end_date : EndDates, limit : Limits]

-----------------------------------------------------------------------------
(* The state machine of one GA4DataManager *)

Init ==
    /\ file \in Files
    /\ property_id \in PropertyIds
    /\ client = FALSE
    /\ rate_limit_delay = InitialRateLimitDelay
    /\ pc = "idle"
    /\ args = CHOOSE a \in QuerySpecs : TRUE
    /\ attempt = 0
    /\ result = NoResult
    /\ sleeps = <<>>
    /\ requests = <<>>
    /\ warnings = <<>>
    /\ auth_result = <<>>
    /\ clientAtCall = FALSE
    /\ report = NoReport
    /\ trace = <<>>
    /\ mcp = NoSession

Resting == pc \in {"idle", "returned", "auth_returned"}

\* a caller invokes get_data_with_retry(dimensions, metrics, start, end, limit)
Call ==
    /\ Resting
    /\ report.pc # "fetching"
    /\ report' = NoReport
    /\ \E a \in QuerySpecs : args' = a
    /\ pc' = "loop"
    /\ attempt' = 0
    /\ result' = NoResult
    /\ sleeps' = <<>>
    /\ requests' = <<>>
    /\ warnings' = <<>>
    /\ auth_result' = <<>>
    /\ clientAtCall' = client
    /\ trace' = <<>>
    /\ UNCHANGED <<file, property_id, client, rate_limit_delay, mcp>>

\* one iteration of the for loop of get_data_with_retry
Attempt ==
    /\ pc = "loop"
    /\ \E lib \in LibOutcomes, out \in ProviderOutcomes :
        LET slept == IF ShouldSleep(attempt)
                     THEN Append(sleeps, BackoffDelay(rate_limit_delay, attempt))
                     ELSE sleeps
            doAuth == NeedsAuthentication(client)
            auth == authenticate(file, property_id, client, lib)
            cl1 == IF doAuth THEN auth.client ELSE client
            req1 == IF doAuth THEN requests \o auth.sent ELSE requests
            log1 == IF doAuth THEN warnings \o auth.logged ELSE warnings
            validation == _validate_query_inputs(args.dimensions, args.metrics,
                                                 args.start_date, args.end_date)
            raised == RaisedInTry(cl1, out, args)
            req2 == IF cl1 THEN Append(req1, RunReportRequest(property_id, args))
                    ELSE req1
            done1 == trace \o (IF ShouldSleep(attempt) THEN <<"sleep">> ELSE <<>>)
                           \o (IF doAuth THEN <<"authenticate">> ELSE <<>>)
            done2 == done1 \o (IF cl1 THEN <<"run_report">> ELSE <<>>)
                           \o (IF cl1 /\ ~out.raises THEN <<"response">> ELSE <<>>)
        IN  /\ sleeps' = slept
            /\ client' = cl1
            /\ auth_result' = IF doAuth THEN <<auth.result>> ELSE auth_result
            /\ IF doAuth /\ AuthShortCircuits(auth.result) THEN
                    /\ result' = auth.result
                    /\ pc' = "returned"
                    /\ requests' = req1
                    /\ warnings' = log1
                    /\ trace' = done1
                    /\ attempt' = attempt
               ELSE IF ValidationShortCircuits(validation) THEN
                    /\ result' = [success |-> FALSE, error |-> validation.error,
                                  suggestion |-> validation.suggestion]
                    /\ pc' = "returned"
                    /\ requests' = req1
                    /\ warnings' = log1
                    /\ trace' = done1
                    /\ attempt' = attempt
               ELSE IF raised = <<>> THEN
                    /\ result' = SuccessResult(property_id, args, out)
                    /\ pc' = "returned"
                    /\ requests' = req2
                    /\ warnings' = log1
                    /\ trace' = done2
                    /\ attempt' = attempt
               ELSE IF ~RetryCatches(raised[1]) THEN
                    /\ result' = result
                    /\ pc' = "raised"
                    /\ requests' = req2
                    /\ warnings' = log1
                    /\ trace' = done2
                    /\ attempt' = attempt
               ELSE
                    /\ requests' = req2
                    /\ trace' = done2
                    /\ warnings' = Append(log1, [level |-> "warning",
                                                 attempt |-> attempt + 1,
                                                 error |-> raised[1]])
                    /\ IF IsFinalAttempt(attempt) THEN
                            /\ result' = FinalFailure(raised[1])
                            /\ pc' = "returned"
                            /\ attempt' = attempt
                       ELSE IF LoopContinues(attempt) THEN
                            /\ result' = result
                            /\ pc' = "loop"
                            /\ attempt' = attempt + 1
                       ELSE
                            /\ result' = MaxRetriesExceeded
                            /\ pc' = "returned"
                            /\ attempt' = attempt
    /\ UNCHANGED <<file, property_id, rate_limit_delay, args, clientAtCall,
                   report, mcp>>

\* a caller invokes authenticate() directly
Authenticate ==
    /\ Resting
    /\ report.pc # "fetching"
    /\ report' = NoReport
    /\ \E lib \in LibOutcomes :
        LET auth == authenticate(file, property_id, client, lib)
        IN  /\ result' = auth.result
            /\ client' = auth.client
            /\ requests' = auth.sent
            /\ warnings' = auth.logged
            /\ auth_result' = <<auth.result>>
    /\ pc' = "auth_returned"
    /\ attempt' = 0
    /\ sleeps' = <<>>
    /\ clientAtCall' = client
    /\ trace' = <<"authenticate">>
    /\ UNCHANGED <<file, property_id, rate_limit_delay, args, mcp>>

\* the environment replaces the service-account file between calls
ReplaceFile ==
    /\ Resting
    /\ report.pc # "fetching"
    /\ report' = NoReport
    /\ \E f \in Files : file' = f
    /\ pc' = "idle"
    /\ attempt' = 0
    /\ result' = NoResult
    /\ sleeps' = <<>>
    /\ requests' = <<>>
    /\ warnings' = <<>>
    /\ auth_result' = <<>>
    /\ clientAtCall' = client
    /\ trace' = <<>>
    /\ UNCHANGED <<property_id, client, rate_limit_delay, args, mcp>>

Next == Call \/ Attempt \/ Authenticate \/ ReplaceFile

Spec == Init /\ [][Next]_vars

\* a running call is not suspended for ever: the loop body is synchronous
\* code whose only waits are the finite sleeps
SpecFair == Spec /\ WF_vars(Attempt)

-----------------------------------------------------------------------------
(* _validate_query_inputs applied to a wide set of inputs *)

TokenBases ==
    {Tok_today, Tok_yesterday, Tok_7daysAgo, Tok_30daysAgo, Tok_abs,
     Tok_slashes, Tok_last_week, Tok_short_abs, Tok_Today, Tok_empty,
     Tok_neg, Tok_daysAgo, Tok_arabic}

TokenPrefixes == {<<>>, <<" ">>}

TokenSuffixes == {<<>>, Newline, <<"x">>}

WideTokens == {p \o b \o x : p \in TokenPrefixes, b \in TokenBases,
                              x \in TokenSuffixes}

CoreTokens == {Tok_today, Tok_7daysAgo, Tok_last_week, Tok_slashes}

DatePairs == (WideTokens \X CoreTokens) \cup (CoreTokens \X WideTokens)

ValidateDimensionLists ==
    {Rep("date", n) : n \in {0, 2} \cup (MaxDimensions..MaxDimLen)}

ValidateMetricLists ==
    {<<>>, <<"sessions">>, <<"bogus">>, <<"sessions", "bogus">>,
     <<"bogus", "sessions", "fake">>, <<"fake", "bogus", "fake">>,
     Rep("sessions", MaxMetricCount - 1) \o <<"bogus">>,
     Rep("bogus", MaxMetricLen)} \cup
    {Rep("sessions", n) : n \in MaxMetricCount..MaxMetricLen}

ValidateInputs ==
    {[dimensions |-> d, metrics |-> m, start_date |-> dp[1],
      end_date |-> dp[2], limit |-> DefaultLimit] :
        d \in ValidateDimensionLists, m \in ValidateMetricLists,
        dp \in DatePairs}

InitValidate ==
    /\ file = [exists |-> TRUE, parses |-> TRUE, info |-> AllSet]
    /\ property_id \in PropertyIds
    /\ client = FALSE
    /\ rate_limit_delay = InitialRateLimitDelay
    /\ pc = "validate"
    /\ args \in ValidateInputs
    /\ attempt = 0
    /\ result = NoResult
    /\ sleeps = <<>>
    /\ requests = <<>>
    /\ warnings = <<>>
    /\ auth_result = <<>>
    /\ clientAtCall = FALSE
    /\ report = NoReport
    /\ trace = <<>>
    /\ mcp = NoSession

\* result holds the dictionary _validate_query_inputs returns
Validate ==
    /\ pc = "validate"
    /\ result' = _validate_query_inputs(args.dimensions, args.metrics,
                                        args.start_date, args.end_date)
    /\ pc' = "validated"
    /\ UNCHANGED <<file, property_id, client, rate_limit_delay, args, attempt,
                   sleeps, requests, warnings, auth_result, clientAtCall,
                   report, trace, mcp>>

NextValidate == Validate

SpecValidate == InitValidate /\ [][NextValidate]_vars

-----------------------------------------------------------------------------
(* Free text: a request is a sequence of one-character strings *)

Tok_90daysAgo  == <<"9","0">> \o Tok_daysAgo
Tok_60daysAgo  == <<"6","0">> \o Tok_daysAgo
Tok_14daysAgo  == <<"1","4">> \o Tok_daysAgo

UpperCase == <<"A","B","C","D","E","F","G","H","I","J","K","L","M","N","O","P","Q","R","S","T","U","V","W","X","Y","Z">>

LowerCase == <<"a","b","c","d","e","f","g","h","i","j","k","l","m","n","o","p","q","r","s","t","u","v","w","x","y","z">>

\* c.lower() of one character
LowerOf(c) ==
    IF \E i \in 1..Len(UpperCase) : UpperCase[i] = c
    THEN LowerCase[CHOOSE i \in 1..Len(UpperCase) : UpperCase[i] = c]
    ELSE c

UpperOf(c) ==
    IF \E i \in 1..Len(LowerCase) : LowerCase[i] = c
    THEN UpperCase[CHOOSE i \in 1..Len(LowerCase) : LowerCase[i] = c]
    ELSE c

\* user_request.lower()
lower(text) == [i \in 1..Len(text) |-> LowerOf(text[i])]

\* keyword in text: keyword is a substring of text
Contains(text, keyword) ==
    \E i \in 1..(Len(text) - Len(keyword) + 1) :
        SubSeq(text, i, i + Len(keyword) - 1) = keyword

-----------------------------------------------------------------------------
(* QueryIntelligence.parse_user_request.  A confidence is held in          *)
(* hundredths: 0.9 is 90, so that the sums and comparisons of the scores    *)
(* are those of the code's floating-point sums.                             *)

query_patterns == <<
    [patterns |-> <<
        <<"t","r","a","f","f","i","c">>,
        <<"v","i","s","i","t","o","r","s">>,
        <<"s","e","s","s","i","o","n","s">>,
        <<"u","s","e","r","s">>,
        <<"v","i","s","i","t","s">>>>,
     dimensions |-> <<"date">>,
     metrics |-> <<"sessions", "totalUsers", "screenPageViews">>,
     type |-> "traffic",
     confidence |-> 90],
    [patterns |-> <<
        <<"p","a","g","e","s">>,
        <<"p","a","g","e"," ","v","i","e","w","s">>,
        <<"c","o","n","t","e","n","t">>,
        <<"t","o","p"," ","p","a","g","e","s">>,
        <<"p","o","p","u","l","a","r"," ","p","a","g","e","s">>>>,
     dimensions |-> <<"pagePath", "pageTitle">>,
     metrics |-> <<"screenPageViews", "sessions">>,
     type |-> "pages",
     confidence |-> 95],
    [patterns |-> <<
        <<"s","o","u","r","c","e">>,
        <<"r","e","f","e","r","r","a","l">>,
        <<"c","a","m","p","a","i","g","n">>,
        <<"c","h","a","n","n","e","l">>,
        <<"w","h","e","r","e">>,
        <<"h","o","w"," ","u","s","e","r","s"," ","f","o","u","n","d">>>>,
     dimensions |-> <<"source", "medium", "sessionDefaultChannelGroup">>,
     metrics |-> <<"sessions", "totalUsers">>,
     type |-> "acquisition",
     confidence |-> 90],
    [patterns |-> <<
        <<"d","e","v","i","c","e">>,
        <<"m","o","b","i","l","e">>,
        <<"d","e","s","k","t","o","p">>,
        <<"t","a","b","l","e","t">>,
        <<"p","l","a","t","f","o","r","m">>>>,
     dimensions |-> <<"deviceCategory", "operatingSystem">>,
     metrics |-> <<"sessions", "totalUsers">>,
     type |-> "technology",
     confidence |-> 85],
    [patterns |-> <<
        <<"c","o","u","n","t","r","y">>,
        <<"l","o","c","a","t","i","o","n">>,
        <<"g","e","o","g","r","a","p","h","i","c">>,
        <<"r","e","g","i","o","n">>,
        <<"c","i","t","y">>>>,
     dimensions |-> <<"country", "city">>,
     metrics |-> <<"sessions", "totalUsers">>,
     type |-> "geography",
     confidence |-> 90],
    [patterns |-> <<
        <<"c","o","n","v","e","r","s","i","o","n">>,
        <<"g","o","a","l">>,
        <<"r","e","v","e","n","u","e">>,
        <<"p","u","r","c","h","a","s","e">>,
        <<"t","r","a","n","s","a","c","t","i","o","n">>>>,
     dimensions |-> <<"date">>,
     metrics |-> <<"conversions", "totalRevenue", "transactions">>,
     type |-> "ecommerce",
     confidence |-> 95],
    [patterns |-> <<
        <<"e","n","g","a","g","e","m","e","n","t">>,
        <<"b","o","u","n","c","e">>,
        <<"d","u","r","a","t","i","o","n">>,
        <<"t","i","m","e">>,
        <<"i","n","t","e","r","a","c","t","i","o","n">>>>,
     dimensions |-> <<"date">>,
     metrics |-> <<"engagementRate", "bounceRate", "averageSessionDuration">>,
     type |-> "engagement",
     confidence |-> 90]
>>

\* score += pattern["confidence"] for every keyword found in request_lower
PatternScore(pattern, request_lower) ==
    pattern.confidence *
        Cardinality({k \in 1..Len(pattern.patterns) :
                        Contains(request_lower, pattern.patterns[k])})

\* ties replace the earlier match
IsBetter_OrEqual(score, highest_score) == score >= highest_score

\* if score > highest_score
IsBetter(score, highest_score) == score > highest_score

\* the loop over query_patterns from index i on: <<best_match, highest_score>>
\* at its end, best_match being an index of query_patterns, 0 for None
RECURSIVE ScanPatterns(_, _, _, _)
ScanPatterns(i, best_match, highest_score, request_lower) ==
    IF i > Len(query_patterns) THEN <<best_match, highest_score>>
    ELSE LET score == PatternScore(query_patterns[i], request_lower)
         IN  IF IsBetter(score, highest_score)
             THEN ScanPatterns(i + 1, i, score, request_lower)
             ELSE ScanPatterns(i + 1, best_match, highest_score, request_lower)

\* the fallback repeats the traffic intent
DefaultQueryConfig_TrafficIntent ==
    [dimensions |-> <<"date">>,
     metrics |-> <<"sessions", "totalUsers", "screenPageViews">>,
     type |-> "traffic",
     confidence |-> 90]

DefaultQueryConfig ==
    [dimensions |-> <<"date">>,
     metrics |-> <<"sessions", "totalUsers">>,
     type |-> "traffic",
     confidence |-> 50]

parse_user_request(user_request) ==
    LET scan == ScanPatterns(1, 0, 0, lower(user_request))
    IN  IF scan[1] # 0
        THEN [dimensions |-> query_patterns[scan[1]].dimensions,
              metrics |-> query_patterns[scan[1]].metrics,
              type |-> query_patterns[scan[1]].type,
              confidence |-> scan[2]]
        ELSE DefaultQueryConfig

-----------------------------------------------------------------------------
(* QueryIntelligence.parse_date_range *)

date_patterns == <<
    [patterns |-> <<
        <<"l","a","s","t"," ","9","0"," ","d","a","y","s">>,
        <<"p","a","s","t"," ","3"," ","m","o","n","t","h","s">>,
        <<"q","u","a","r","t","e","r","l","y">>>>,
     date_range |-> <<Tok_90daysAgo, Tok_today>>],
    [patterns |-> <<
        <<"l","a","s","t"," ","6","0"," ","d","a","y","s">>,
        <<"p","a","s","t"," ","2"," ","m","o","n","t","h","s">>>>,
     date_range |-> <<Tok_60daysAgo, Tok_today>>],
    [patterns |-> <<
        <<"l","a","s","t"," ","3","0"," ","d","a","y","s">>,
        <<"p","a","s","t"," ","m","o","n","t","h">>,
        <<"m","o","n","t","h","l","y">>>>,
     date_range |-> <<Tok_30daysAgo, Tok_today>>],
    [patterns |-> <<
        <<"l","a","s","t"," ","1","4"," ","d","a","y","s">>,
        <<"p","a","s","t"," ","2"," ","w","e","e","k","s">>>>,
     date_range |-> <<Tok_14daysAgo, Tok_today>>],
    [patterns |-> <<
        <<"l","a","s","t"," ","7"," ","d","a","y","s">>,
        <<"p","a","s","t"," ","w","e","e","k">>,
        <<"w","e","e","k","l","y">>>>,
     date_range |-> <<Tok_7daysAgo, Tok_today>>],
    [patterns |-> <<
        <<"y","e","s","t","e","r","d","a","y">>>>,
     date_range |-> <<Tok_yesterday, Tok_yesterday>>],
    [patterns |-> <<
        <<"t","o","d","a","y">>>>,
     date_range |-> <<Tok_today, Tok_today>>],
    [patterns |-> <<
        <<"t","h","i","s"," ","w","e","e","k">>>>,
     date_range |-> <<Tok_7daysAgo, Tok_today>>],
    [patterns |-> <<
        <<"t","h","i","s"," ","m","o","n","t","h">>>>,
     date_range |-> <<Tok_30daysAgo, Tok_today>>]
>>

\* any(pattern in request_lower for pattern in patterns)
AnyPhraseIn(patterns, request_lower) ==
    \E k \in 1..Len(patterns) : Contains(request_lower, patterns[k])

\* the default range is given in words
DefaultDateRange_Words == <<Tok_last_week, Tok_today>>

\* return "30daysAgo", "today"
DefaultDateRange == <<Tok_30daysAgo, Tok_today>>

\* the rules are scanned from the last one to the first
RECURSIVE ScanDateRules_Reversed(_, _)
ScanDateRules_Reversed(i, request_lower) ==
    LET j == Len(date_patterns) + 1 - i
    IN  IF i > Len(date_patterns) THEN DefaultDateRange
        ELSE IF AnyPhraseIn(date_patterns[j].patterns, request_lower)
             THEN date_patterns[j].date_range
        ELSE ScanDateRules_Reversed(i + 1, request_lower)

\* for patterns, date_range in date_patterns, from index i on
RECURSIVE ScanDateRules(_, _)
ScanDateRules(i, request_lower) ==
    IF i > Len(date_patterns) THEN DefaultDateRange
    ELSE IF AnyPhraseIn(date_patterns[i].patterns, request_lower)
         THEN date_patterns[i].date_range
    ELSE ScanDateRules(i + 1, request_lower)

parse_date_range(user_request) == ScanDateRules(1, lower(user_request))

-----------------------------------------------------------------------------
(* Requests supplied to the two parsers *)

Txt_top_pages == <<"s","h","o","w"," ","m","e"," ","t","o","p"," ","p","a","g","e","s"," ","b","y"," ","p","a","g","e"," ","v","i","e","w","s">>

Txt_past_week == <<"s","h","o","w"," ","d","a","t","a"," ","f","r","o","m"," ","t","h","e"," ","p","a","s","t"," ","w","e","e","k">>

Txt_analyze == <<"A","n","a","l","y","z","e"," ","t","o","p"," ","p","e","r","f","o","r","m","i","n","g"," ","p","a","g","e","s"," ","t","h","i","s"," ","m","o","n","t","h">>

Txt_hello == <<"h","e","l","l","o"," ","w","o","r","l","d">>

PhrasePool == {
    <<"t","r","a","f","f","i","c">>,
    <<"u","s","e","r","s">>,
    <<"p","a","g","e","s">>,
    <<"t","o","p"," ","p","a","g","e","s">>,
    <<"p","a","g","e"," ","v","i","e","w","s">>,
    <<"s","o","u","r","c","e">>,
    <<"r","e","v","e","n","u","e">>,
    <<"l","a","s","t"," ","9","0"," ","d","a","y","s">>,
    <<"p","a","s","t"," ","w","e","e","k">>,
    <<"m","o","n","t","h","l","y">>,
    <<"y","e","s","t","e","r","d","a","y">>,
    <<"t","o","d","a","y">>,
    <<"t","h","i","s"," ","m","o","n","t","h">>}

RECURSIVE JoinWords(_)
JoinWords(ws) ==
    IF ws = <<>> THEN <<>>
    ELSE IF Len(ws) = 1 THEN ws[1]
    ELSE ws[1] \o <<" ">> \o JoinWords(Tail(ws))

PhraseSeqs == UNION {[1..n -> PhrasePool] : n \in 0..MaxPhrases}

CapFirst(text) ==
    IF text = <<>> THEN text ELSE <<UpperOf(text[1])>> \o Tail(text)

LowerTexts ==
    {JoinWords(ws) : ws \in PhraseSeqs} \cup
    {Txt_top_pages, Txt_past_week, Txt_hello}

Texts == LowerTexts \cup {CapFirst(t) : t \in PhrasePool} \cup {Txt_analyze}


InitQuery ==
    /\ file = [exists |-> TRUE, parses |-> TRUE, info |-> AllSet]
    /\ property_id \in PropertyIds
    /\ client = FALSE
    /\ rate_limit_delay = InitialRateLimitDelay
    /\ pc = "parse"
    /\ args \in {[user_request |-> t] : t \in Texts}
    /\ attempt = 0
    /\ result = NoResult
    /\ sleeps = <<>>
    /\ requests = <<>>
    /\ warnings = <<>>
    /\ auth_result = <<>>
    /\ clientAtCall = FALSE
    /\ report = NoReport
    /\ trace = <<>>
    /\ mcp = NoSession

\* result holds what the two parsers return for the request
ParseRequest ==
    /\ pc = "parse"
    /\ result' = [query_config |-> parse_user_request(args.user_request),
                  date_range |-> parse_date_range(args.user_request)]
    /\ pc' = "parsed"
    /\ UNCHANGED <<file, property_id, client, rate_limit_delay, args, attempt,
                   sleeps, requests, warnings, auth_result, clientAtCall,
                   report, trace, mcp>>

NextQuery == ParseRequest

SpecQuery == InitQuery /\ [][NextQuery]_vars

-----------------------------------------------------------------------------
(* Response normalisation: _clean_page_path, _clean_page_title and the     *)
(* metric coercion of _process_response, on character sequences            *)

Str_UnknownPage  == <<"U","n","k","n","o","w","n"," ","P","a","g","e">>
Str_Homepage     == <<"H","o","m","e","p","a","g","e">>
Str_UntitledPage == <<"U","n","t","i","t","l","e","d"," ","P","a","g","e">>
Str_not_set      == <<"(","n","o","t"," ","s","e","t",")">>
Ellipsis         == <<".", ".", ".">>

PathLimit == 50
PathKept == 47
TitleLimit == 60
TitleKept == 57

\* the characters str.strip() removes, among those of the model
Whitespace == {" ", "\t", "\n", "\r", "\f"}

\* path.strip() == ""
IsBlank(s) == \A i \in 1..Len(s) : s[i] \in Whitespace

\* path.split("?")[0]: the part before the first "?"
BeforeFirst(s, c) ==
    IF \E i \in 1..Len(s) : s[i] = c
    THEN SubSeq(s, 1, (CHOOSE i \in 1..Len(s) :
                          s[i] = c /\ \A j \in 1..(i - 1) : s[j] # c) - 1)
    ELSE s

\* path.rstrip("/")
RECURSIVE RStrip(_, _)
RStrip(s, c) ==
    IF s # <<>> /\ s[Len(s)] = c THEN RStrip(SubSeq(s, 1, Len(s) - 1), c)
    ELSE s

\* the limit is taken for the number of characters kept
Truncate_KeepLimit(s, limit, kept) ==
    IF Len(s) > limit THEN SubSeq(s, 1, limit) \o Ellipsis ELSE s

\* path[:47] + "..." when len(path) > 50
Truncate(s, limit, kept) ==
    IF Len(s) > limit THEN SubSeq(s, 1, kept) \o Ellipsis ELSE s

_clean_page_path(path) ==
    IF path = <<>> \/ IsBlank(path) THEN Str_UnknownPage
    ELSE IF path = <<"/">> \/ path = <<>> THEN Str_Homepage
    ELSE LET stripped == RStrip(BeforeFirst(path, "?"), "/")
         IN  IF stripped = <<>> THEN Str_Homepage
             ELSE Truncate(stripped, PathLimit, PathKept)

\* the sentinel "(not set)" is returned unchanged
_clean_page_title_NoSentinel(title) ==
    IF title = <<>> \/ IsBlank(title)
    THEN Str_UntitledPage
    ELSE Truncate(title, TitleLimit, TitleKept)

_clean_page_title(title) ==
    IF title = <<>> \/ IsBlank(title) \/ title = Str_not_set
    THEN Str_UntitledPage
    ELSE Truncate(title, TitleLimit, TitleKept)

\* the value of a decimal digit character
DigitValue(c) ==
    IF c = "U+0663" THEN 3
    ELSE CHOOSE d \in 0..9 :
            <<"0","1","2","3","4","5","6","7","8","9">>[d + 1] = c

\* value.strip(), as int() and float() do before they parse
RECURSIVE LStripSpace(_)
LStripSpace(s) ==
    IF s # <<>> /\ s[1] \in Whitespace THEN LStripSpace(Tail(s)) ELSE s

RECURSIVE RStripSpace(_)
RStripSpace(s) ==
    IF s # <<>> /\ s[Len(s)] \in Whitespace
    THEN RStripSpace(SubSeq(s, 1, Len(s) - 1)) ELSE s

Strip(s) == RStripSpace(LStripSpace(s))

\* the index after the longest digit part (digits, single underscores
\* between them) that starts at index i of s; i itself when there is none
RECURSIVE DigitRun(_, _)
DigitRun(s, i) ==
    IF i > Len(s) \/ ~IsDigit(s[i]) THEN i
    ELSE IF i + 1 <= Len(s) /\ IsDigit(s[i + 1]) THEN DigitRun(s, i + 1)
    ELSE IF i + 2 <= Len(s) /\ s[i + 1] = "_" /\ IsDigit(s[i + 2])
         THEN DigitRun(s, i + 2)
    ELSE i + 1

\* the number written by the digits of s[i..j-1], underscores skipped,
\* continuing from acc
RECURSIVE DigitsValue(_, _, _, _)
DigitsValue(s, i, j, acc) ==
    IF i >= j THEN acc
    ELSE IF s[i] = "_" THEN DigitsValue(s, i + 1, j, acc)
    ELSE DigitsValue(s, i + 1, j, 10 * acc + DigitValue(s[i]))

\* the number of digits in s[i..j-1]
DigitCount(s, i, j) == Cardinality({k \in i..(j - 1) : IsDigit(s[k])})

HasSign(s, i) == i <= Len(s) /\ s[i] \in {"+", "-"}

SignAt(s, i) == IF i <= Len(s) /\ s[i] = "-" THEN -1 ELSE 1

\* int(value): <<>> when it raises ValueError, else <<n>>
int(value) ==
    LET t == Strip(value)
        p == IF HasSign(t, 1) THEN 2 ELSE 1
        q == DigitRun(t, p)
    IN  IF q > p /\ q = Len(t) + 1
        THEN <<SignAt(t, 1) * DigitsValue(t, p, q, 0)>>
        ELSE <<>>

\* a float as mantissa * 10^exponent with no trailing zero in the mantissa
RECURSIVE Normal(_, _)
Normal(m, e) ==
    IF m = 0 THEN [mantissa |-> 0, exponent |-> 0]
    ELSE IF m % 10 = 0 THEN Normal(m \div 10, e + 1)
    ELSE [mantissa |-> m, exponent |-> e]

\* float(value) for a value holding "." or "e"/"E": <<>> when it raises
\* ValueError, else <<the number>>
float(value) ==
    LET t == Strip(value)
        p == IF HasSign(t, 1) THEN 2 ELSE 1
        i1 == DigitRun(t, p)
        dot == i1 <= Len(t) /\ t[i1] = "."
        i2 == IF dot THEN i1 + 1 ELSE i1
        i3 == IF dot THEN DigitRun(t, i2) ELSE i1
        hasMantissa == i1 > p \/ (dot /\ i3 > i2)
        exp == i3 <= Len(t) /\ t[i3] \in {"e", "E"}
        q == IF exp THEN (IF HasSign(t, i3 + 1) THEN i3 + 2 ELSE i3 + 1) ELSE i3
        i4 == IF exp THEN DigitRun(t, q) ELSE i3
        expOk == ~exp \/ i4 > q
        mant == DigitsValue(t, i2, i3, DigitsValue(t, p, i1, 0))
        e10 == (IF exp THEN SignAt(t, i3 + 1) * DigitsValue(t, q, i4, 0) ELSE 0)
                 - DigitCount(t, i2, i3)
    IN  IF hasMantissa /\ expOk /\ i4 = Len(t) + 1
        THEN <<Normal(SignAt(t, 1) * mant, e10)>>
        ELSE <<>>

\* only a lower-case "e" is looked for
HasDotOrExponent_CaseSensitive(value) ==
    \E i \in 1..Len(value) : value[i] \in {".", "e"}

\* '.' in value or 'e' in value.lower()
HasDotOrExponent(value) ==
    \E i \in 1..Len(value) : value[i] = "." \/ LowerOf(value[i]) = "e"

\* the value stored for a metric: a float, an int, or the string itself
\* when float() or int() raises ValueError
CoerceMetric(value) ==
    IF HasDotOrExponent(value) THEN
        IF float(value) # <<>>
        THEN [type |-> "float", number |-> float(value)[1]]
        ELSE [type |-> "str", text |-> value]
    ELSE
        IF int(value) # <<>>
        THEN [type |-> "int", number |-> int(value)[1]]
        ELSE [type |-> "str", text |-> value]

\* the digits [1-9] of the strptime patterns
OneToNine == {"1", "2", "3", "4", "5", "6", "7", "8", "9"}

\* %Y : (?P<Y>\d\d\d\d) at the start of the value
YearOf(value) ==
    IF \A i \in 1..4 : IsDigit(value[i])
    THEN <<DigitsValue(value, 1, 5, 0)>> ELSE <<>>

\* %m : (?P<m>1[0-2]|0[1-9]|[1-9]) after the year; the one-character
\* alternative leaves the value one character short of its end, which
\* strptime rejects as unconverted data, so only the first two can succeed
MonthOf(value) ==
    IF value[5] = "1" /\ value[6] \in {"0", "1", "2"}
    THEN <<10 + DigitValue(value[6])>>
    ELSE IF value[5] = "0" /\ value[6] \in OneToNine
    THEN <<DigitValue(value[6])>>
    ELSE <<>>

\* %d : (?P<d>3[0-1]|[1-2]\d|0[1-9]|[1-9]| [1-9]) after the month; of the
\* two-character alternatives the last is a space and a digit
DayOf(value) ==
    IF value[7] = "3" /\ value[8] \in {"0", "1"}
    THEN <<30 + DigitValue(value[8])>>
    ELSE IF value[7] \in {"1", "2"} /\ IsDigit(value[8])
    THEN <<10 * DigitValue(value[7]) + DigitValue(value[8])>>
    ELSE IF value[7] \in {"0", " "} /\ value[8] \in OneToNine
    THEN <<DigitValue(value[8])>>
    ELSE <<>>

IsLeapYear(y) == y % 4 = 0 /\ (y % 100 # 0 \/ y % 400 = 0)

DaysInMonth(y, m) ==
    IF m = 2 THEN (IF IsLeapYear(y) THEN 29 ELSE 28)
    ELSE IF m \in {4, 6, 9, 11} THEN 30
    ELSE 31

\* datetime.strptime(value, '%Y%m%d') for a value of 8 characters: <<>> when
\* it raises ValueError, else <<the date>>
strptime(value) ==
    IF YearOf(value) # <<>> /\ MonthOf(value) # <<>> /\ DayOf(value) # <<>>
       /\ YearOf(value)[1] >= 1
       /\ DayOf(value)[1] <= DaysInMonth(YearOf(value)[1], MonthOf(value)[1])
    THEN <<[year |-> YearOf(value)[1], month |-> MonthOf(value)[1],
            day |-> DayOf(value)[1]]>>
    ELSE <<>>

DigitChar(d) == <<"0", "1", "2", "3", "4", "5", "6", "7", "8", "9">>[d + 1]

\* the decimal numeral of n, without padding
RECURSIVE Decimal(_)
Decimal(n) ==
    IF n < 10 THEN <<DigitChar(n)>>
    ELSE Append(Decimal(n \div 10), DigitChar(n % 10))

\* %m and %d of strftime: two digits
TwoDigits(n) == <<DigitChar(n \div 10), DigitChar(n % 10)>>

\* date.strftime('%Y-%m-%d'); %Y is the numeral of the year (four digits
\* for every year from 1000)
strftime(date) ==
    Decimal(date.year) \o <<"-">> \o TwoDigits(date.month)
                       \o <<"-">> \o TwoDigits(date.day)

\* the fields a dimension value adds to row_data
ProcessDimension(dim, value) ==
    IF dim = "date" /\ Len(value) = 8
    THEN [name \in {"date"} |->
             IF strptime(value) # <<>> THEN strftime(strptime(value)[1])
             ELSE value]
    ELSE IF dim = "pagePath"
    THEN [name \in {"pagePath", "pagePath_raw"} |->
             IF name = "pagePath" THEN _clean_page_path(value) ELSE value]
    ELSE IF dim = "pageTitle"
    THEN [name \in {"pageTitle"} |-> _clean_page_title(value)]
    ELSE [name \in {dim} |-> value]

\* row_data of one raw row: a function from field names to values
ProcessRow(row, dimensions, metrics) ==
    LET dimFields(i) == ProcessDimension(dimensions[i], row.dimension_values[i])
        names == UNION {DOMAIN dimFields(i) : i \in 1..Len(dimensions)}
                    \cup {metrics[i] : i \in 1..Len(metrics)}
        \* a later assignment to the same key replaces an earlier one
        lastMetric(n) == CHOOSE i \in 1..Len(metrics) :
                            metrics[i] = n /\ \A j \in (i + 1)..Len(metrics) : metrics[j] # n
        lastDim(n) == CHOOSE i \in 1..Len(dimensions) :
                            n \in DOMAIN dimFields(i)
                            /\ \A j \in (i + 1)..Len(dimensions) : n \notin DOMAIN dimFields(j)
    IN  [n \in names |->
            IF \E i \in 1..Len(metrics) : metrics[i] = n
            THEN CoerceMetric(row.metric_values[lastMetric(n)])
            ELSE dimFields(lastDim(n))[n]]

_process_response(response, dimensions, metrics) ==
    [r \in 1..Len(response.rows) |-> ProcessRow(response.rows[r], dimensions, metrics)]

-----------------------------------------------------------------------------
(* Raw values supplied to the normaliser *)

Path_blog == <<"/","b","l","o","g","/","p","o","s","t","?","u","t","m","=","x">>
Path_blog_clean == <<"/","b","l","o","g","/","p","o","s","t">>

Val_123 == <<"1","2","3">>
Val_1p5e2 == <<"1",".","5","e","2">>
Val_na == <<"n","/","a">>

PathAlphabet == {"/", "?", "a", " "}

MetricAlphabet == {"1", "0", ".", "e", "E", "-", "_", " "}

SeqsUpTo(alphabet, n) == UNION {[1..k -> alphabet] : k \in 0..n}

\* paths around the display limit, bare, with a trailing slash, with a query
LongPaths ==
    {<<"/">> \o Rep("a", n) \o x :
        n \in (PathLimit - 3)..(PathLimit + 1),
        x \in {<<>>, <<"/">>, <<"?", "a">>}}

PathValues == SeqsUpTo(PathAlphabet, MaxValueLen) \cup LongPaths \cup {Path_blog}

MetricValues ==
    SeqsUpTo(MetricAlphabet, MaxValueLen) \cup
    {Val_123, Val_1p5e2, Val_na, <<"+", "1">>, <<"U+0663">>,
     <<"1", "e", "-", "1", "0">>, <<"n", "a", "n">>, <<"i", "n", "f">>}

TitleAlphabet == {" ", "a", "\t"}

\* titles around the display limit
LongTitles == {Rep("a", n) : n \in (TitleLimit - 3)..(TitleLimit + 1)}

TitleValues ==
    SeqsUpTo(TitleAlphabet, MaxValueLen) \cup LongTitles \cup
    {Str_not_set, Str_not_set \o <<" ">>, Str_UntitledPage}

\* values of 8 characters: a year, a month and a day part, well formed or
\* not; and values of other lengths
YearParts ==
    {<<"2","0","2","4">>, <<"2","0","2","3">>, <<"0","0","0","0">>,
     <<"2","0","2","U+0663">>, <<"2","0","2","x">>}

MonthParts ==
    {<<"0","1">>, <<"0","2">>, <<"1","2">>, <<"1","3">>, <<"0","0">>,
     <<"1"," ">>, <<" ","1">>}

DayParts ==
    {<<"0","1">>, <<"2","8">>, <<"2","9">>, <<"3","0">>, <<"3","1">>,
     <<"3","2">>, <<"0","0">>, <<" ","5">>, <<"5"," ">>, <<"1","U+0663">>}

DateValues ==
    {y \o m \o d : y \in YearParts, m \in MonthParts, d \in DayParts} \cup
    {<<>>, <<"2","0","2","4","0","1","1">>,
     <<"2","0","2","4","0","1","1","5","0">>,
     <<"2","0","2","4","-","0","1","-","1","5">>}

RawResponses ==
    {[dimensions |-> <<"pageTitle">>, metrics |-> <<"sessions">>,
      rows |-> <<[dimension_values |-> <<v>>, metric_values |-> <<<<"1">>>>]>>] :
        v \in TitleValues} \cup
    {[dimensions |-> <<"date">>, metrics |-> <<"sessions">>,
      rows |-> <<[dimension_values |-> <<v>>, metric_values |-> <<<<"1">>>>]>>] :
        v \in DateValues} \cup
    {[dimensions |-> <<"pagePath">>, metrics |-> <<"sessions">>,
      rows |-> <<[dimension_values |-> <<v>>, metric_values |-> <<<<"1">>>>]>>] :
        v \in PathValues} \cup
    {[dimensions |-> <<"country">>, metrics |-> <<"sessions">>,
      rows |-> <<[dimension_values |-> <<<<"a">>>>, metric_values |-> <<v>>]>>] :
        v \in MetricValues}

InitNormalize ==
    /\ file = [exists |-> TRUE, parses |-> TRUE, info |-> AllSet]
    /\ property_id \in PropertyIds
    /\ client = FALSE
    /\ rate_limit_delay = InitialRateLimitDelay
    /\ pc = "normalize"
    /\ args \in RawResponses
    /\ attempt = 0
    /\ result = NoResult
    /\ sleeps = <<>>
    /\ requests = <<>>
    /\ warnings = <<>>
    /\ auth_result = <<>>
    /\ clientAtCall = FALSE
    /\ report = NoReport
    /\ trace = <<>>
    /\ mcp = NoSession

\* result holds the list _process_response returns
Normalize ==
    /\ pc = "normalize"
    /\ result' = _process_response(args, args.dimensions, args.metrics)
    /\ pc' = "normalized"
    /\ UNCHANGED <<file, property_id, client, rate_limit_delay, args, attempt,
                   sleeps, requests, warnings, auth_result, clientAtCall,
                   report, trace, mcp>>

NextNormalize == Normalize

SpecNormalize == InitNormalize /\ [][NextNormalize]_vars

-----------------------------------------------------------------------------
(* ReportGenerator.generate_comprehensive_report over one GA4DataManager    *)

ReportTexts == {Txt_analyze, Txt_hello, Txt_top_pages, Txt_past_week}

\* the columns create_executive_summary totals and formats with "{:,}"
SummedMetrics == {"totalUsers", "sessions", "screenPageViews", "conversions"}

\* the exception the steps after the fetch raise, <<>> when none: idxmax of
\* a column of texts raises TypeError, and the total of such a column is a
\* text, which "{:,}" cannot format (ValueError)
PostProcessingRaised(data, query_config) ==
    IF /\ data.rows > 0
       /\ ~data.numeric
       /\ \E i \in 1..Len(query_config.metrics) :
              query_config.metrics[i] \in SummedMetrics
    THEN <<Exc("metric text not a number")>>
    ELSE <<>>

\* except Exception as e
ReportCatches(e) == e.kind = "exception"

\* the failure returned when data_result['success'] is false
PropagatedFailure(data_result) ==
    [success |-> FALSE,
     error |-> data_result.error,
     suggestion |-> IF "suggestion" \in DOMAIN data_result
                    THEN data_result.suggestion
                    ELSE "Please try a different query"]

\* the failure returned by the except clause
ReportFailure(e) ==
    [success |-> FALSE,
     error |-> e,
     suggestion |-> "Please try simplifying your request or check your data access"]

\* the success bundle; the texts and figures are not interpreted
ReportBundle(data_result, query_config) ==
    [success |-> TRUE,
     executive_summary |-> [of |-> data_result.data, type |-> query_config.type],
     insights |-> [of |-> data_result.data, type |-> query_config.type],
     visualizations |-> [of |-> data_result.data, type |-> query_config.type],
     data |-> data_result.data,
     metadata |-> data_result.metadata]

\* the requests with what the two parsers return for them
ParsedRequests ==
    {[user_request |-> t,
      query_config |-> parse_user_request(t),
      date_range |-> parse_date_range(t)] : t \in ReportTexts}

\* a caller invokes generate_comprehensive_report(user_request): the request
\* is parsed and get_data_with_retry is entered with the parsed Query Spec
GenerateReport ==
    /\ Resting
    /\ report.pc # "fetching"
    /\ \E parsed \in ParsedRequests :
        /\ report' = [pc |-> "fetching",
                      user_request |-> parsed.user_request,
                      query_config |-> parsed.query_config,
                      date_range |-> parsed.date_range]
        /\ args' = [dimensions |-> parsed.query_config.dimensions,
                    metrics |-> parsed.query_config.metrics,
                    start_date |-> parsed.date_range[1],
                    end_date |-> parsed.date_range[2],
                    limit |-> DefaultLimit]
    /\ pc' = "loop"
    /\ attempt' = 0
    /\ result' = NoResult
    /\ sleeps' = <<>>
    /\ requests' = <<>>
    /\ warnings' = <<>>
    /\ auth_result' = <<>>
    /\ clientAtCall' = client
    /\ trace' = <<>>
    /\ UNCHANGED <<file, property_id, client, rate_limit_delay, mcp>>

\* get_data_with_retry has returned (or raised) into the report, which
\* returns the failure, or builds the bundle, or lands in its except clause
ReportFinish ==
    /\ report.pc = "fetching"
    /\ pc \in {"returned", "raised"}
    /\ LET raised == IF pc = "raised"
                     THEN <<Exc("get_data_with_retry raised")>>
                     ELSE IF result.success
                     THEN PostProcessingRaised(result.data, report.query_config)
                     ELSE <<>>
       IN  IF raised # <<>> THEN
                IF ReportCatches(raised[1])
                THEN report' = [report EXCEPT !.pc = "returned"] @@
                               [result |-> ReportFailure(raised[1])]
                ELSE report' = [report EXCEPT !.pc = "raised"]
           ELSE IF ~result.success THEN
                report' = [report EXCEPT !.pc = "returned"] @@
                          [result |-> PropagatedFailure(result)]
           ELSE report' = [report EXCEPT !.pc = "returned"] @@
                          [result |-> ReportBundle(result, report.query_config)]
    /\ UNCHANGED <<file, property_id, client, rate_limit_delay, pc, args,
                   attempt, result, sleeps, requests, warnings, auth_result,
                   clientAtCall, trace, mcp>>

NextReport == Next \/ GenerateReport \/ ReportFinish

SpecReport == Init /\ [][NextReport]_vars

-----------------------------------------------------------------------------
(* ReportGenerator._generate_insights over a table of numeric rows          *)

WeekLen == 7
TwoWeeks == 14

\* df.columns: the fields of the rows, none for an empty table
Columns(df) == IF df = <<>> THEN {} ELSE DOMAIN df[1]

RECURSIVE SumField(_, _)
SumField(rows, field) ==
    IF rows = <<>> THEN 0 ELSE rows[1][field] + SumField(Tail(rows), field)

\* df.tail(n)
TailRows(df, n) ==
    IF Len(df) <= n THEN df ELSE SubSeq(df, Len(df) - n + 1, Len(df))

\* df.iloc[-14:-7]
PriorWeekRows(df) ==
    SubSeq(df, IF Len(df) > TwoWeeks THEN Len(df) - TwoWeeks + 1 ELSE 1,
               Len(df) - WeekLen)

\* df[field].idxmax(): the first row holding the largest value
IdxMax(df, field) ==
    CHOOSE i \in 1..Len(df) :
        /\ \A j \in 1..Len(df) : df[j][field] <= df[i][field]
        /\ \A j \in 1..(i - 1) : df[j][field] < df[i][field]

\* len(df) >= 14 and 'sessions' in df.columns
HasPriorWeek(df) == Len(df) >= TwoWeeks /\ "sessions" \in Columns(df)

\* the week-over-week insight, <<>> when none is appended; the two means
\* are held as the sums of their seven rows
TrendInsight(df) ==
    IF Len(df) > WeekLen THEN
        LET recent_week == IF "sessions" \in Columns(df)
                           THEN SumField(TailRows(df, WeekLen), "sessions")
                           ELSE 0
            previous_week == IF HasPriorWeek(df)
                             THEN SumField(PriorWeekRows(df), "sessions")
                             ELSE recent_week
        IN  IF previous_week > 0
            THEN <<[kind |-> "trend",
                    trend |-> IF recent_week > previous_week
                              THEN "increased" ELSE "decreased",
                    recent_week |-> recent_week,
                    previous_week |-> previous_week]>>
            ELSE <<>>
    ELSE <<>>

_generate_insights(df, query_type) ==
    IF query_type = "traffic" /\ "date" \in Columns(df) THEN
        TrendInsight(df) \o
        (IF "sessions" \in Columns(df)
         THEN <<[kind |-> "peak",
                 date |-> df[IdxMax(df, "sessions")].date,
                 sessions |-> df[IdxMax(df, "sessions")].sessions]>>
         ELSE <<>>)
    ELSE IF query_type = "acquisition" /\ "source" \in Columns(df) THEN
        IF "sessions" \in Columns(df)
        THEN <<[kind |-> "top_source",
                source |-> df[IdxMax(df, "sessions")].source,
                sessions |-> df[IdxMax(df, "sessions")].sessions]>>
        ELSE <<>>
    ELSE IF query_type = "pages" /\ "pagePath" \in Columns(df) THEN
        IF "screenPageViews" \in Columns(df) THEN
            <<[kind |-> "top_page",
               pagePath |-> df[IdxMax(df, "screenPageViews")].pagePath,
               views |-> df[IdxMax(df, "screenPageViews")].screenPageViews]>> \o
            (IF (\E i \in 1..Len(df) : df[i].pagePath = "Homepage") /\ Len(df) > 1
             THEN <<[kind |-> "homepage_share",
                     homepage_views |->
                        SumField(SelectSeq(df, LAMBDA r : r.pagePath = "Homepage"),
                                 "screenPageViews"),
                     total_views |-> SumField(df, "screenPageViews")]>>
             ELSE <<>>)
        ELSE <<>>
    ELSE <<>>

\* tables: daily rows whose sessions are one value up to the last week and
\* another in it, with or without the sessions column; page rows; source rows
SessionCounts == {0, 1, 3}

DailyTables ==
    {[i \in 1..n |-> [date |-> i,
                      sessions |-> IF i > n - WeekLen THEN b ELSE a]] :
        n \in 0..MaxRecords, a \in SessionCounts, b \in SessionCounts} \cup
    {[i \in 1..n |-> [date |-> i, totalUsers |-> a]] :
        n \in 0..MaxRecords, a \in SessionCounts}

PageTables ==
    {<<[pagePath |-> p, screenPageViews |-> a],
       [pagePath |-> "/a", screenPageViews |-> b]>> :
        p \in {"Homepage", "/b"}, a \in SessionCounts, b \in SessionCounts}

SourceTables ==
    {<<[source |-> "google", sessions |-> a],
       [source |-> "direct", sessions |-> b]>> :
        a \in SessionCounts, b \in SessionCounts}

QueryTypes == {"traffic", "acquisition", "pages", "general"}

InitInsights ==
    /\ file = [exists |-> TRUE, parses |-> TRUE, info |-> AllSet]
    /\ property_id \in PropertyIds
    /\ client = FALSE
    /\ rate_limit_delay = InitialRateLimitDelay
    /\ pc = "insights"
    /\ args \in [df : DailyTables \cup PageTables \cup SourceTables,
                 query_type : QueryTypes]
    /\ attempt = 0
    /\ result = NoResult
    /\ sleeps = <<>>
    /\ requests = <<>>
    /\ warnings = <<>>
    /\ auth_result = <<>>
    /\ clientAtCall = FALSE
    /\ report = NoReport
    /\ trace = <<>>
    /\ mcp = NoSession

\* result holds the list _generate_insights returns
GenerateInsights ==
    /\ pc = "insights"
    /\ result' = _generate_insights(args.df, args.query_type)
    /\ pc' = "insights_done"
    /\ UNCHANGED <<file, property_id, client, rate_limit_delay, args, attempt,
                   sleeps, requests, warnings, auth_result, clientAtCall,
                   report, trace, mcp>>

NextInsights == GenerateInsights

SpecInsights == InitInsights /\ [][NextInsights]_vars

-----------------------------------------------------------------------------
(* GoogleAnalyticsMCPServer: the session and its tools                      *)

McpDefaultLimit == 1000

McpProperties == {"111", "222"}

Accounts == {"sa1", "sa2"}

\* service_account_json: absent from the arguments, or text (or a file) that
\* json cannot load, or a document of an account whose key
\* from_service_account_info can or cannot load
JsonInputs ==
    {[kind |-> "missing"], [kind |-> "unparseable"]} \cup
    {[kind |-> "document", account |-> a, key_ok |-> k] :
        a \in Accounts, k \in BOOLEAN}

\* arguments of authenticate_ga_service_account; property_id may be absent
McpAuthArgs ==
    [service_account_json : JsonInputs,
     property_id : McpProperties \cup {"missing"}]

\* arguments of get_analytics_data
McpDataArgs ==
    {[dimensions |-> <<"date">>, metrics |-> <<"sessions">>],
     [metrics |-> <<"sessions">>],
     [dimensions |-> <<"date">>],
     [dimensions |-> <<"pagePath">>, metrics |-> <<"sessions">>,
      date_range |-> [start_date |-> "30daysAgo"], limit |-> 5,
      filters |-> <<[dimension |-> "pagePath", value |-> "/home"],
                    [text |-> "no operator"]>>],
     [dimensions |-> <<"date">>, metrics |-> <<"sessions">>,
      date_range |-> [end_date |-> "yesterday"],
      filters |-> <<[text |-> "no operator"]>>]}

McpFailure(session, text, sent) ==
    [session EXCEPT !.result = [ok |-> FALSE, text |-> text],
                    !.requests = sent]

McpTestRequest(prop, cl, start) ==
    [kind |-> "test", property |-> prop, client |-> cl,
     start_date |-> start, end_date |-> "today",
     metrics |-> <<"sessions">>, limit |-> 1]

\* the session after _authenticate_ga_service_account(args)
_authenticate_ga_service_account(session, a, testRaises) ==
    LET returned(s) == [s EXCEPT !.pc = "auth_returned"]
    IN
    IF a.service_account_json.kind = "missing" \/ a.property_id = "missing"
    THEN returned(McpFailure(session, "Authentication failed", <<>>))
    ELSE
    LET s1 == [session EXCEPT !.property_id = a.property_id]
    IN
    IF a.service_account_json.kind = "unparseable"
    THEN returned(McpFailure(s1, "Authentication failed", <<>>))
    ELSE IF ~a.service_account_json.key_ok
    THEN returned(McpFailure(s1, "Authentication failed", <<>>))
    ELSE
    LET s2 == [s1 EXCEPT !.credentials = a.service_account_json.account,
                         !.client = a.service_account_json.account]
        sent == <<McpTestRequest(s2.property_id, s2.client, "7daysAgo")>>
    IN
    IF testRaises
    THEN returned(McpFailure(s2, "Authentication failed", sent))
    ELSE returned([s2 EXCEPT
                      !.result = [ok |-> TRUE, text |-> "Successfully authenticated"],
                      !.requests = sent])

\* if not self.client or not self.property_id
NotAuthenticated(session) ==
    session.client = "None" \/ session.property_id = "None"

\* the expressions built from the filter strings that hold "=="
FilterExpressions(filters) ==
    SelectSeq(filters, LAMBDA f : "dimension" \in DOMAIN f)

\* the RunReportRequest of _get_analytics_data
McpDataRequest(session, a) ==
    LET date_range == IF "date_range" \in DOMAIN a THEN a.date_range
                      ELSE [none |-> TRUE]
        base == [kind |-> "data",
                 property |-> session.property_id,
                 client |-> session.client,
                 dimensions |-> a.dimensions,
                 metrics |-> a.metrics,
                 start_date |-> IF "start_date" \in DOMAIN date_range
                                THEN date_range.start_date ELSE "7daysAgo",
                 end_date |-> IF "end_date" \in DOMAIN date_range
                              THEN date_range.end_date ELSE "today",
                 limit |-> IF "limit" \in DOMAIN a THEN a.limit
                           ELSE McpDefaultLimit]
    IN  IF "filters" \in DOMAIN a /\ FilterExpressions(a.filters) # <<>>
        THEN base @@ [dimension_filter |-> FilterExpressions(a.filters)]
        ELSE base

\* the session after _get_analytics_data(args)
_get_analytics_data(session, a, raises) ==
    LET returned(s) == [s EXCEPT !.pc = "data_returned"]
    IN
    IF NotAuthenticated(session)
    THEN returned(McpFailure(session, "Not authenticated", <<>>))
    ELSE IF "dimensions" \notin DOMAIN a \/ "metrics" \notin DOMAIN a
    THEN returned(McpFailure(session, "Error getting data", <<>>))
    ELSE IF raises
    THEN returned(McpFailure(session, "Error getting data",
                             <<McpDataRequest(session, a)>>))
    ELSE returned([session EXCEPT
                      !.result = [ok |-> TRUE, text |-> "data",
                                  dimensions |-> a.dimensions,
                                  metrics |-> a.metrics],
                      !.requests = <<McpDataRequest(session, a)>>])

\* the session after _test_connection(args)
_test_connection(session, raises) ==
    LET returned(s) == [s EXCEPT !.pc = "test_returned"]
        sent == <<McpTestRequest(session.property_id, session.client,
                                 "yesterday")>>
    IN
    IF NotAuthenticated(session)
    THEN returned(McpFailure(session, "Not authenticated", <<>>))
    ELSE IF raises
    THEN returned(McpFailure(session, "Connection test failed", sent))
    ELSE returned([session EXCEPT
                      !.result = [ok |-> TRUE, text |-> "Connection test successful"],
                      !.requests = sent])

\* the session after _get_property_info(args)
_get_property_info(session) ==
    IF session.property_id = "None"
    THEN [McpFailure(session, "No property ID set", <<>>)
             EXCEPT !.pc = "info_returned"]
    ELSE [session EXCEPT
             !.pc = "info_returned",
             !.requests = <<>>,
             !.result = [ok |-> TRUE, text |-> "property info",
                         property_id |-> session.property_id,
                         authenticated |-> session.client # "None",
                         service_account_email |-> session.credentials]]

InitMcp ==
    /\ file = [exists |-> TRUE, parses |-> TRUE, info |-> AllSet]
    /\ property_id \in PropertyIds
    /\ client = FALSE
    /\ rate_limit_delay = InitialRateLimitDelay
    /\ pc = "mcp"
    /\ args = [tool |-> "none"]
    /\ attempt = 0
    /\ result = NoResult
    /\ sleeps = <<>>
    /\ requests = <<>>
    /\ warnings = <<>>
    /\ auth_result = <<>>
    /\ clientAtCall = FALSE
    /\ report = NoReport
    /\ trace = <<>>
    /\ mcp = NoSession

McpUnchanged ==
    UNCHANGED <<file, property_id, client, rate_limit_delay, pc, attempt,
                result, sleeps, requests, warnings, auth_result, clientAtCall,
                report, trace>>

\* call_tool("authenticate_ga_service_account", arguments)
McpAuthenticate ==
    /\ \E a \in McpAuthArgs, testRaises \in BOOLEAN :
        /\ args' = [tool |-> "authenticate_ga_service_account", arguments |-> a]
        /\ mcp' = _authenticate_ga_service_account(mcp, a, testRaises)
    /\ McpUnchanged

\* call_tool("get_analytics_data", arguments)
McpGetAnalyticsData ==
    /\ \E a \in McpDataArgs, raises \in BOOLEAN :
        /\ args' = [tool |-> "get_analytics_data", arguments |-> a]
        /\ mcp' = _get_analytics_data(mcp, a, raises)
    /\ McpUnchanged

\* call_tool("test_connection", {})
McpTestConnection ==
    /\ \E raises \in BOOLEAN : mcp' = _test_connection(mcp, raises)
    /\ args' = [tool |-> "test_connection"]
    /\ McpUnchanged

\* call_tool("get_property_info", {})
McpGetPropertyInfo ==
    /\ mcp' = _get_property_info(mcp)
    /\ args' = [tool |-> "get_property_info"]
    /\ McpUnchanged

NextMcp ==
    \/ McpAuthenticate
    \/ McpGetAnalyticsData
    \/ McpTestConnection
    \/ McpGetPropertyInfo

SpecMcp == InitMcp /\ [][NextMcp]_vars

-----------------------------------------------------------------------------
(* Observations used by the properties *)

DataRequests == SelectSeq(requests, LAMBDA r : r.kind = "data")

AuthTestRequests == SelectSeq(requests, LAMBDA r : r.kind = "auth_test")

\* the records logger.warning wrote: one per attempt that raised
FailedAttempts == SelectSeq(warnings, LAMBDA w : w.level = "warning")

Rejected(a) ==
    ~_validate_query_inputs(a.dimensions, a.metrics,
                            a.start_date, a.end_date).valid

HasInvalidMetric(metrics) ==
    \E i \in 1..Len(metrics) : metrics[i] \notin valid_metrics

\* names holds every invalid name of metrics, and nothing else
ListsEveryInvalid(names, metrics) ==
    /\ \A i \in 1..Len(metrics) :
          metrics[i] \notin valid_metrics =>
              \E j \in 1..Len(names) : names[j] = metrics[i]
    /\ \A j \in 1..Len(names) :
          /\ names[j] \notin valid_metrics
          /\ \E i \in 1..Len(metrics) : metrics[i] = names[j]

\* the three date token syntaxes, character by character
IsAbsoluteForm(s) ==
    /\ Len(s) = 10
    /\ \A i \in {1,2,3,4,6,7,9,10} : IsDigit(s[i])
    /\ s[5] = "-" /\ s[8] = "-"

IsDaysAgoForm(s) ==
    /\ Len(s) >= 8
    /\ SubSeq(s, Len(s) - 6, Len(s)) = Tok_daysAgo
    /\ \A i \in 1..(Len(s) - 7) : IsDigit(s[i])

IsLiteralForm(s) == s = Tok_today \/ s = Tok_yesterday

IsDateTokenForm(s) == IsAbsoluteForm(s) \/ IsDaysAgoForm(s) \/ IsLiteralForm(s)

-----------------------------------------------------------------------------
(* Properties *)

\* C1: a get_data_with_retry call whose Query Spec the validator rejects
\* returns a failure on its first attempt, having slept for no backoff and
\* having sent no request of any kind to the provider, whether or not a
\* client existed when the call began.  Stated for calls made with a
\* complete credential document on disk, so that only the order of
\* authentication and validation decides it.
C1_InvalidSpecNoNetwork ==
    (pc = "returned" /\ Rejected(args) /\ file.exists /\ file.parses
        /\ file.info = AllSet) =>
        /\ ~result.success
        /\ attempt = 0
        /\ sleeps = <<>>
        /\ requests = <<>>

\* C2: a call makes at most 3 attempts; it sleeps before every attempt but
\* the first, for 1 * 2^index time units (2, then 4); a call whose first two
\* attempts fail and whose third succeeds returns success after exactly the
\* sleeps 2 and 4.
C2_BoundedExponentialBackoff ==
    /\ attempt <= 2
    /\ Len(DataRequests) <= 3
    /\ pc = "loop" => /\ Len(FailedAttempts) = attempt
                      /\ sleeps = SubSeq(<<2, 4>>, 1, attempt - 1)
    /\ pc = "returned" => sleeps = SubSeq(<<2, 4>>, 1, attempt)
    /\ (pc = "returned" /\ result.success /\ Len(FailedAttempts) = 2) =>
           sleeps = <<2, 4>>

C2_Witness ==
    /\ pc = "returned"
    /\ result.success
    /\ Len(FailedAttempts) = 2
    /\ Len(DataRequests) = 3
    /\ sleeps = <<2, 4>>

\* C3: when all three attempts raise, the call returns a failure whose error
\* is the exception of the third attempt, with the generic suggestion; an
\* earlier failed attempt is only logged and followed by the next attempt.
C3_LastErrorReturned ==
    /\ (pc = "returned" /\ Len(FailedAttempts) = 3) =>
           /\ ~result.success
           /\ result.error = FailedAttempts[3].error
           /\ result.suggestion =
                "Try reducing the date range or number of dimensions/metrics"
    /\ (pc = "returned" /\ Len(FailedAttempts) \in {1, 2}) => result.success
    /\ (pc = "loop" /\ Len(FailedAttempts) > 0) =>
           /\ result = NoResult
           /\ attempt = Len(FailedAttempts)

C3_Witness ==
    /\ pc = "returned"
    /\ Len(FailedAttempts) = 3
    /\ FailedAttempts[1].error = Exc("e1")
    /\ FailedAttempts[2].error = Exc("e1")
    /\ FailedAttempts[3].error = Exc("e2")
    /\ result.error = Exc("e2")

\* C4: a call that begins without a client authenticates first; when that
\* authentication fails the call returns the authentication's failure at
\* once: no further attempt, no backoff sleep, no data request.
C4_AuthFailureShortCircuits ==
    /\ (pc = "returned" /\ ~clientAtCall) => auth_result # <<>>
    /\ (pc = "returned" /\ ~clientAtCall /\ auth_result # <<>>
            /\ ~auth_result[1].success) =>
           /\ result = auth_result[1]
           /\ attempt = 0
           /\ sleeps = <<>>
           /\ DataRequests = <<>>
           /\ FailedAttempts = <<>>

C4_Witness ==
    /\ pc = "returned"
    /\ ~clientAtCall
    /\ auth_result # <<>>
    /\ ~auth_result[1].success
    /\ result = auth_result[1]
    /\ ~Rejected(args)

\* C5: authenticate accepts a credential document only if all four required
\* fields are present and non-empty; a document with a field absent or
\* empty is rejected before a client is built and before any request.
C5_CredentialFieldsNonEmpty ==
    (pc \in {"loop", "returned", "auth_returned"} /\ auth_result # <<>>
        /\ file.exists /\ file.parses
        /\ \E f \in RequiredFieldSet : file.info[f] # "set") =>
        /\ ~auth_result[1].success
        /\ AuthTestRequests = <<>>
        /\ client = clientAtCall

\* C6: a dimension list longer than 9 is rejected with an error that carries
\* the exact number of dimensions supplied, whatever the metrics and dates.
C6_TooManyDimensionsCount ==
    (pc = "validated" /\ Len(args.dimensions) > 9) =>
        /\ ~result.valid
        /\ result.error.kind = "Too many dimensions"
        /\ result.error.count = Len(args.dimensions)

C6_Witness ==
    /\ pc = "validated"
    /\ Len(args.dimensions) = 10
    /\ HasInvalidMetric(args.metrics)
    /\ ~date_patterns_match(args.start_date)
    /\ ~result.valid
    /\ result.error.count = 10

\* C7 as stated: a metric list with a name outside the allow-list fails
\* validation with an error that lists every invalid name.
C7_Original ==
    (pc = "validated" /\ HasInvalidMetric(args.metrics)) =>
        /\ ~result.valid
        /\ result.error.kind = "Invalid metrics"
        /\ ListsEveryInvalid(result.error.names, args.metrics)

\* C7 amended: a metric list with a name outside the allow-list fails
\* validation; when there are at most 9 dimensions and at most 10 metrics
\* the error lists every invalid name of the list.
C7_InvalidMetricsListed ==
    (pc = "validated" /\ HasInvalidMetric(args.metrics)) =>
        /\ ~result.valid
        /\ (Len(args.dimensions) <= 9 /\ Len(args.metrics) <= 10) =>
               /\ result.error.kind = "Invalid metrics"
               /\ ListsEveryInvalid(result.error.names, args.metrics)

C7_Witness ==
    /\ pc = "validated"
    /\ args.metrics = <<"fake", "bogus", "fake">>
    /\ Len(args.dimensions) <= 9
    /\ ~result.valid
    /\ result.error.kind = "Invalid metrics"
    /\ Len(result.error.names) = 3

\* C8: the rules are checked in the order dimension count, metric count,
\* unknown metric, start_date, end_date, and the failure reported is that of
\* the first rule violated; with no rule violated the result is valid and
\* carries no error.
C8_FirstViolatedRuleWins ==
    pc = "validated" =>
        IF Len(args.dimensions) > 9
            THEN ~result.valid /\ result.error.kind = "Too many dimensions"
        ELSE IF Len(args.metrics) > 10
            THEN ~result.valid /\ result.error.kind = "Too many metrics"
        ELSE IF HasInvalidMetric(args.metrics)
            THEN ~result.valid /\ result.error.kind = "Invalid metrics"
        ELSE IF ~date_patterns_match(args.start_date)
            THEN /\ ~result.valid
                 /\ result.error.kind = "Invalid date format"
                 /\ result.error.value = args.start_date
        ELSE IF ~date_patterns_match(args.end_date)
            THEN /\ ~result.valid
                 /\ result.error.kind = "Invalid date format"
                 /\ result.error.value = args.end_date
        ELSE result = [valid |-> TRUE]

C8_Witness ==
    /\ pc = "validated"
    /\ Len(args.dimensions) <= 9
    /\ args.metrics = <<"sessions">>
    /\ args.start_date = Tok_last_week
    /\ args.end_date = Tok_slashes
    /\ result.error.value = Tok_last_week

\* C9: a date token passes validation if and only if it is an absolute date
\* YYYY-MM-DD, a relative offset <integer>daysAgo, or one of the literals
\* today and yesterday.
C9_DateTokenForms ==
    (pc = "validated" /\ Len(args.dimensions) <= 9 /\ Len(args.metrics) <= 10
        /\ ~HasInvalidMetric(args.metrics)) =>
        (result.valid <=>
            (IsDateTokenForm(args.start_date) /\ IsDateTokenForm(args.end_date)))

\* C10: every data request carries min(limit, 100000): never more than
\* 100000, a larger limit clamped and a smaller one unchanged.
C10_LimitClamped ==
    \A i \in 1..Len(DataRequests) :
        /\ DataRequests[i].limit <= 100000
        /\ args.limit <= 100000 => DataRequests[i].limit = args.limit
        /\ args.limit > 100000 => DataRequests[i].limit = 100000

C10_Witness ==
    /\ pc = "returned"
    /\ args.limit = 100001
    /\ Len(DataRequests) > 0
    /\ DataRequests[1].limit = 100000

-----------------------------------------------------------------------------
(* Properties of the two parsers *)

\* the sum, over the first k keywords of pattern p, of p's weight for every
\* keyword that occurs in text
RECURSIVE SumWeights(_, _, _)
SumWeights(p, k, text) ==
    IF k = 0 THEN 0
    ELSE SumWeights(p, k - 1, text) +
         (IF Contains(text, p.patterns[k]) THEN p.confidence ELSE 0)

IntentScore(i, text) ==
    SumWeights(query_patterns[i], Len(query_patterns[i].patterns), lower(text))

Intents == 1..Len(query_patterns)

NoKeywordOccurs(text) ==
    \A i \in Intents : \A k \in 1..Len(query_patterns[i].patterns) :
        ~Contains(lower(text), query_patterns[i].patterns[k])

RuleMatches(i, text) ==
    \E k \in 1..Len(date_patterns[i].patterns) :
        Contains(lower(text), date_patterns[i].patterns[k])

\* C11: each intent scores the sum of its weight over its keywords that
\* occur in the lower-cased request; the intent returned is the first one,
\* in definition order, whose score is the highest, and the confidence
\* returned is that score.
C11_HighestScoreFirstWins ==
    (pc = "parsed" /\ ~NoKeywordOccurs(args.user_request)) =>
        \E w \in Intents :
            /\ IntentScore(w, args.user_request) > 0
            /\ \A j \in Intents :
                  /\ IntentScore(j, args.user_request)
                        <= IntentScore(w, args.user_request)
                  /\ j < w => IntentScore(j, args.user_request)
                                < IntentScore(w, args.user_request)
            /\ result.query_config =
                 [dimensions |-> query_patterns[w].dimensions,
                  metrics |-> query_patterns[w].metrics,
                  type |-> query_patterns[w].type,
                  confidence |-> IntentScore(w, args.user_request)]

\* two intents tie at the highest score, which is more than one keyword's
\* weight, and the earlier one is returned
C11_Witness ==
    /\ pc = "parsed"
    /\ \E i, j \in Intents :
          /\ i < j
          /\ IntentScore(i, args.user_request) = IntentScore(j, args.user_request)
          /\ IntentScore(i, args.user_request) > 0
          /\ \A k \in Intents : IntentScore(k, args.user_request)
                                   <= IntentScore(i, args.user_request)
          /\ result.query_config.type = query_patterns[i].type
          /\ result.query_config.confidence = IntentScore(i, args.user_request)

\* C12: a request in which no keyword of any intent occurs yields the
\* default (date; sessions, totalUsers; "traffic"; 0.5), and "show me top
\* pages by page views" yields "pages" with pagePath, pageTitle.
C12_DefaultAndPagesExample ==
    /\ (pc = "parsed" /\ NoKeywordOccurs(args.user_request)) =>
           result.query_config =
               [dimensions |-> <<"date">>,
                metrics |-> <<"sessions", "totalUsers">>,
                type |-> "traffic",
                confidence |-> 50]
    /\ (pc = "parsed" /\ args.user_request = Txt_top_pages) =>
           /\ result.query_config.type = "pages"
           /\ result.query_config.dimensions = <<"pagePath", "pageTitle">>

C12_Witness ==
    /\ pc = "parsed"
    /\ args.user_request = Txt_hello
    /\ result.query_config.type = "traffic"
    /\ result.query_config.confidence = 50

\* C13: the token pair returned is that of the first rule, in declaration
\* order, one of whose phrases occurs in the lower-cased request, whatever
\* later rules match; with no rule matching it is (30daysAgo, today); "show
\* data from the past week" yields (7daysAgo, today).
C13_FirstDateRuleWins ==
    /\ pc = "parsed" =>
          IF \E i \in 1..Len(date_patterns) : RuleMatches(i, args.user_request)
          THEN \E i \in 1..Len(date_patterns) :
                  /\ RuleMatches(i, args.user_request)
                  /\ \A j \in 1..(i - 1) : ~RuleMatches(j, args.user_request)
                  /\ result.date_range = date_patterns[i].date_range
          ELSE result.date_range = <<Tok_30daysAgo, Tok_today>>
    /\ (pc = "parsed" /\ args.user_request = Txt_past_week) =>
           result.date_range = <<Tok_7daysAgo, Tok_today>>

\* two rules with different token pairs match and the earlier one is returned
C13_Witness ==
    /\ pc = "parsed"
    /\ \E i, j \in 1..Len(date_patterns) :
          /\ i < j
          /\ RuleMatches(i, args.user_request)
          /\ RuleMatches(j, args.user_request)
          /\ \A k \in 1..(i - 1) : ~RuleMatches(k, args.user_request)
          /\ date_patterns[i].date_range # date_patterns[j].date_range
          /\ result.date_range = date_patterns[i].date_range

\* the raw value and the normalised row of a one-row response
RawDimension == args.rows[1].dimension_values[1]
RawMetric == args.rows[1].metric_values[1]
NormalizedPath == pc = "normalized" /\ args.dimensions = <<"pagePath">>
NormalizedMetric == pc = "normalized" /\ args.dimensions # <<"pagePath">>

\* C14: a pagePath of "" and a pagePath of "/" both normalise to
\* "Homepage", and "/blog/post?utm=x" normalises to "/blog/post" with
\* pagePath_raw equal to the original string.
C14_HomepageAndQueryExamples ==
    NormalizedPath =>
        /\ RawDimension \in {<<>>, <<"/">>} => result[1].pagePath = Str_Homepage
        /\ RawDimension = Path_blog =>
              /\ result[1].pagePath = Path_blog_clean
              /\ result[1].pagePath_raw = Path_blog

\* the cleaned path as stated: everything from the first "?" removed, then
\* all trailing slashes removed, "Homepage" when nothing is left
CleanedAsStated(raw) ==
    LET s == RStrip(BeforeFirst(raw, "?"), "/")
    IN  IF s = <<>> THEN Str_Homepage ELSE s

\* C15: for every raw pagePath value, pagePath_raw is the unmodified value
\* and pagePath is the raw value cut at the first "?" with all trailing
\* slashes removed, "Homepage" when nothing is left (stated for the values
\* whose cleaned form is within the display limit).
C15_RawKeptAndPathCleaned ==
    NormalizedPath /\ Len(CleanedAsStated(RawDimension)) <= PathLimit =>
        /\ result[1].pagePath_raw = RawDimension
        /\ result[1].pagePath = CleanedAsStated(RawDimension)

ContainsDecimalOrExponent(raw) ==
    \E i \in 1..Len(raw) : raw[i] \in {".", "e", "E"}

\* C16: every metric value is coerced without failing: a value with a
\* decimal point or an exponent marker becomes a float, any other value an
\* int, and a value that cannot be coerced stays the original string;
\* "123" becomes 123, "1.5e2" becomes 150.0 and "n/a" stays "n/a".
C16_MetricCoercion ==
    NormalizedMetric =>
        LET v == result[1].sessions
        IN  /\ v.type \in {"float", "int", "str"}
            /\ ContainsDecimalOrExponent(RawMetric) /\ float(RawMetric) # <<>>
                  => v = [type |-> "float", number |-> float(RawMetric)[1]]
            /\ ~ContainsDecimalOrExponent(RawMetric) /\ int(RawMetric) # <<>>
                  => v = [type |-> "int", number |-> int(RawMetric)[1]]
            /\ v.type = "float" => ContainsDecimalOrExponent(RawMetric)
            /\ v.type = "int" => ~ContainsDecimalOrExponent(RawMetric)
            /\ v.type = "str" => v.text = RawMetric
            /\ RawMetric = Val_123 => v = [type |-> "int", number |-> 123]
            /\ RawMetric = Val_1p5e2 =>
                  v = [type |-> "float",
                       number |-> [mantissa |-> 15, exponent |-> 1]]
            /\ RawMetric = Val_na => v = [type |-> "str", text |-> Val_na]

C16_Witness ==
    /\ NormalizedMetric
    /\ RawMetric = Val_1p5e2
    /\ result[1].sessions.type = "float"

\* C17: the report on "Analyze top performing pages this month" over a
\* provider returning numeric rows is a success whose metadata echoes
\* dimensions ["pagePath","pageTitle"], metrics ["screenPageViews",
\* "sessions"] and the range "30daysAgo to today"; and the metadata of every
\* successful fetch carries exactly the dimensions, metrics, range and
\* property id of the data request that was sent.
C17_MetadataEchoesRequest ==
    /\ pc = "returned" /\ result.success =>
          /\ DataRequests # <<>>
          /\ LET sent == DataRequests[Len(DataRequests)]
             IN  result.metadata =
                    [dimensions |-> sent.dimensions,
                     metrics |-> sent.metrics,
                     date_range |-> <<sent.start_date, "to", sent.end_date>>,
                     property_id |-> sent.property]
    /\ /\ report.pc = "returned"
       /\ report.user_request = Txt_analyze
       /\ result.success
       /\ result.data.numeric
       => /\ report.result.success
          /\ report.result.metadata.dimensions = <<"pagePath", "pageTitle">>
          /\ report.result.metadata.metrics = <<"screenPageViews", "sessions">>
          /\ report.result.metadata.date_range = <<Tok_30daysAgo, "to", Tok_today>>
          /\ report.result.metadata.property_id = property_id

C17_Witness ==
    /\ report.pc = "returned"
    /\ report.user_request = Txt_analyze
    /\ report.result.success
    /\ report.result.data.rows > 0
    /\ report.result.metadata.date_range = <<Tok_30daysAgo, "to", Tok_today>>

\* a tagged success/failure value whose failure carries an error message
Tagged(r) ==
    /\ "success" \in DOMAIN r
    /\ r.success \in BOOLEAN
    /\ ~r.success => "error" \in DOMAIN r /\ "kind" \in DOMAIN r.error

\* C18: authenticate, get_data_with_retry and generate_comprehensive_report
\* never raise to their caller: each returns a tagged success/failure
\* value, and every failure value carries an error message, also when the
\* provider call raises on every attempt.
C18_NoOperationRaises ==
    /\ pc # "raised"
    /\ report.pc # "raised"
    /\ pc \in {"returned", "auth_returned"} => Tagged(result)
    /\ report.pc = "returned" => Tagged(report.result)

C18_Witness ==
    /\ report.pc = "returned"
    /\ Len(DataRequests) = max_retries
    /\ Len(FailedAttempts) = max_retries
    /\ ~result.success
    /\ ~report.result.success
    /\ report.result.error = FailedAttempts[max_retries].error

\* C19: every failure generate_comprehensive_report returns is the failure
\* get_data_with_retry returned, with the same error and the same
\* suggestion, and whenever get_data_with_retry returns success the report
\* is a success bundle with data, metadata and insights.
C19_ReportMirrorsFetch ==
    report.pc = "returned" =>
        /\ ~report.result.success =>
              /\ ~result.success
              /\ report.result.error = result.error
              /\ "suggestion" \in DOMAIN result
              /\ report.result.suggestion = result.suggestion
        /\ result.success =>
              /\ report.result.success
              /\ {"data", "metadata", "insights"} \subseteq DOMAIN report.result

\* C20: _generate_insights emits the week-over-week trend insight only when
\* at least 14 records with a sessions field exist; with fewer than 14
\* records no trend insight is produced.
C20_TrendNeedsTwoWeeks ==
    pc = "insights_done" =>
        ((\E i \in 1..Len(result) : result[i].kind = "trend") =>
            /\ Len(args.df) >= TwoWeeks
            /\ "sessions" \in Columns(args.df))

\* C21: within one get_data_with_retry call, once the provider has returned
\* a response to a data request, the call sends no further data request and
\* sleeps no more, whatever rows the response holds.
C21_ResponseEndsCall ==
    \A i \in 1..Len(trace) :
        trace[i] = "response" =>
            \A j \in (i + 1)..Len(trace) : trace[j] \notin {"run_report", "sleep"}

\* C22: a get_data_with_retry call that begins with the client already
\* built reuses it: it never invokes authenticate, sends no connection
\* test, and leaves the client in place, whether its attempts succeed or fail.
C22_ClientReused ==
    pc \in {"loop", "returned"} /\ clientAtCall =>
        /\ \A i \in 1..Len(trace) : trace[i] # "authenticate"
        /\ AuthTestRequests = <<>>
        /\ auth_result = <<>>
        /\ client

C22_Witness ==
    /\ pc = "returned"
    /\ clientAtCall
    /\ Len(DataRequests) = max_retries
    /\ ~result.success
    /\ \A i \in 1..Len(trace) : trace[i] # "authenticate"

RECURSIVE SumSeq(_)
SumSeq(q) == IF q = <<>> THEN 0 ELSE q[1] + SumSeq(Tail(q))

Count(q, x) == Cardinality({i \in 1..Len(q) : q[i] = x})

\* what C29 says of every state of a get_data_with_retry call
C29_CallBounds ==
    /\ pc # "raised"
    /\ rate_limit_delay = InitialRateLimitDelay
    /\ pc \in {"loop", "returned"} =>
          /\ Len(DataRequests) <= 3
          /\ Count(trace, "run_report") <= 3
          /\ Count(trace, "authenticate") <= 1
          /\ Len(sleeps) <= 2
          /\ SumSeq(sleeps) <= 6
          /\ \A i \in 1..Len(sleeps) : sleeps[i] = <<2, 4>>[i]
          /\ Count(trace, "sleep") = Len(sleeps)
    /\ pc = "returned" /\ trace # <<>> => trace[Len(trace)] # "sleep"

\* C29: every get_data_with_retry call returns a result, after at most 3
\* data requests, at most one authenticate invocation and at most 2 backoff
\* sleeps of 2 and 4 time units (6 in all), with no sleep after the final
\* failed attempt; _rate_limit_delay is never modified.
C29_CallTerminatesWithinBounds ==
    /\ []C29_CallBounds
    /\ (pc = "loop") ~> (pc = "returned")

C29_Witness ==
    /\ pc = "returned"
    /\ ~result.success
    /\ Len(DataRequests) = 3
    /\ sleeps = <<2, 4>>
    /\ Count(trace, "authenticate") = 1

\* the raw path after query and trailing-slash stripping
StrippedPath(raw) == RStrip(BeforeFirst(raw, "?"), "/")

\* C23: the cleaned pagePath is never longer than 50 characters; a path
\* longer than 50 characters after query and trailing-slash stripping
\* becomes its first 47 characters followed by "...", and a (non-blank,
\* non-empty) stripped path of at most 50 characters is returned untruncated.
C23_PathAtMostFifty ==
    NormalizedPath =>
        LET s == StrippedPath(RawDimension)
            out == result[1].pagePath
        IN  /\ Len(out) <= 50
            /\ ~IsBlank(RawDimension) /\ Len(s) > 50
                  => out = SubSeq(s, 1, 47) \o <<".", ".", ".">>
            /\ ~IsBlank(RawDimension) /\ s # <<>> /\ Len(s) <= 50
                  => out = s

C23_Witness ==
    /\ NormalizedPath
    /\ Len(StrippedPath(RawDimension)) = 51
    /\ Len(result[1].pagePath) = 50
    /\ result[1].pagePath[48] = "."

NormalizedTitle == pc = "normalized" /\ args.dimensions = <<"pageTitle">>

\* C24: _clean_page_title returns "Untitled Page" for an empty title, a
\* whitespace-only title and the literal "(not set)"; every other title is
\* returned unchanged when at most 60 characters long and otherwise as its
\* first 57 characters followed by "..."; the result never exceeds 60.
C24_TitleCleaned ==
    NormalizedTitle =>
        LET raw == RawDimension
            out == result[1].pageTitle
            sentinel == \/ raw = <<>>
                        \/ \A i \in 1..Len(raw) : raw[i] \in {" ", "\t", "\n", "\r", "\f"}
                        \/ raw = Str_not_set
        IN  /\ sentinel => out = Str_UntitledPage
            /\ ~sentinel /\ Len(raw) <= 60 => out = raw
            /\ ~sentinel /\ Len(raw) > 60
                  => out = SubSeq(raw, 1, 57) \o <<".", ".", ".">>
            /\ Len(out) <= 60

C24_Witness ==
    /\ NormalizedTitle
    /\ RawDimension = Str_not_set
    /\ result[1].pageTitle = Str_UntitledPage

NormalizedDate == pc = "normalized" /\ args.dimensions = <<"date">>

\* a compact YYYYMMDD date: eight digits 0-9 naming a day of the calendar
IsCompactDate(raw) ==
    /\ Len(raw) = 8
    /\ \A i \in 1..8 : raw[i] \in AsciiDigits
    /\ LET y == DigitsValue(raw, 1, 5, 0)
           m == DigitsValue(raw, 5, 7, 0)
           d == DigitsValue(raw, 7, 9, 0)
       IN  /\ y >= 1
           /\ m \in 1..12
           /\ d >= 1
           /\ d <= DaysInMonth(y, m)

Hyphenated(raw) ==
    SubSeq(raw, 1, 4) \o <<"-">> \o SubSeq(raw, 5, 6) \o <<"-">> \o SubSeq(raw, 7, 8)

\* C25: for the date dimension a valid compact YYYYMMDD value is rewritten
\* as YYYY-MM-DD, and every other value (8 characters that are not a
\* calendar date, or a length other than 8) is kept unchanged.
C25_CompactDateRewritten ==
    NormalizedDate =>
        result[1].date = IF IsCompactDate(RawDimension)
                         THEN Hyphenated(RawDimension)
                         ELSE RawDimension

\* C30: _clean_page_path is idempotent: cleaning a cleaned path returns it
\* unchanged.
C30_CleanIdempotent ==
    NormalizedPath =>
        _clean_page_path(result[1].pagePath) = result[1].pagePath

\* every Query Spec the two parsers can assemble: an intent of the table or
\* the default one, with the range of a date rule or the default range
AssembledSpecs ==
    {[dimensions |-> c.dimensions, metrics |-> c.metrics,
      start_date |-> r[1], end_date |-> r[2]] :
        c \in {query_patterns[i] : i \in 1..Len(query_patterns)}
                 \cup {DefaultQueryConfig},
        r \in {date_patterns[i].date_range : i \in 1..Len(date_patterns)}
                 \cup {DefaultDateRange}}

AllAssembledSpecsValid ==
    \A q \in AssembledSpecs :
        /\ Len(q.dimensions) <= 9
        /\ Len(q.metrics) <= 10
        /\ \A i \in 1..Len(q.metrics) : q.metrics[i] \in valid_metrics
        /\ date_patterns_match(q.start_date)
        /\ date_patterns_match(q.end_date)
        /\ _validate_query_inputs(q.dimensions, q.metrics,
                                  q.start_date, q.end_date).valid

\* C26: the Query Spec assembled from parse_user_request and
\* parse_date_range passes _validate_query_inputs for every request: at
\* most 9 dimensions, at most 10 metrics, every metric in the allow-list and
\* both date tokens in an accepted syntax.
C26_ParsedSpecIsValid ==
    /\ AllAssembledSpecsValid
    /\ pc = "parsed" =>
          /\ Len(result.query_config.dimensions) <= 9
          /\ Len(result.query_config.metrics) <= 10
          /\ \A i \in 1..Len(result.query_config.metrics) :
                result.query_config.metrics[i] \in valid_metrics
          /\ date_patterns_match(result.date_range[1])
          /\ date_patterns_match(result.date_range[2])
          /\ _validate_query_inputs(result.query_config.dimensions,
                                    result.query_config.metrics,
                                    result.date_range[1],
                                    result.date_range[2]).valid

C26_Witness ==
    /\ pc = "parsed"
    /\ args.user_request = Txt_hello
    /\ result.query_config = DefaultQueryConfig
    /\ result.date_range = <<Tok_30daysAgo, Tok_today>>
    /\ _validate_query_inputs(result.query_config.dimensions,
                              result.query_config.metrics,
                              result.date_range[1],
                              result.date_range[2]).valid

\* C27: the stored client is set only if the most recent authentication on
\* the manager returned success: an authentication that fails leaves no
\* client behind (stated for a well-formed service-account file).
C27_ClientOnlyAfterSuccess ==
    /\ file.exists /\ file.parses /\ file.info = AllSet
    /\ auth_result # <<>>
    /\ ~auth_result[1].success
    => ~client

\* C28: an authenticate_ga_service_account call that fails leaves the
\* session (property_id, credentials, client) exactly as it was before the
\* call.
C28_FailedAuthKeepsSession ==
    [][(mcp'.pc = "auth_returned" /\ ~mcp'.result.ok) =>
          /\ mcp'.property_id = mcp.property_id
          /\ mcp'.credentials = mcp.credentials
          /\ mcp'.client = mcp.client]_vars

====
